---- MODULE Spec2Model ----
(***************************************************************************)
(* Voice-clone job pipeline of FamFlix: the job store (api/jobs.py), the   *)
(* policy guard and run_clone_job (api/orchestrator.py) and the decision   *)
(* logic of the QC tool (tools/quality_control_tool.py).                   *)
(*                                                                         *)
(* Numbers that are floats in the source are integers in ten-thousandths   *)
(* (0.15 is 1500).  Python's None is the string NoneVal where the value is  *)
(* otherwise a string, and a one-field record where it is otherwise a      *)
(* dict.  A key missing from a dict is a field missing from the record.    *)
(* The timestamps created_at / updated_at and the always-empty artifacts   *)
(* of a job record are left out: no step of the program reads them.        *)
(***************************************************************************)
EXTENDS Integers, Sequences, FiniteSets, TLC

\* ------------------------------------------------------------------ bounds
MaxJobs == 1

JobIds == 1..MaxJobs

\* ------------------------------------------------------- python-like values
NoneVal == "<None>"
Absent == "<absent>"
NoneDict == [none |-> TRUE]
EmptyDict == [empty |-> TRUE]

\* d.get(key, default) on a dict modelled as a record
Get(d, key, default) == IF key \in DOMAIN d THEN d[key] ELSE default

\* A text of n characters (only its length is read by the pipeline).
Text(n) == [i \in 1..n |-> "x"]

\* --------------------------------------------------------------- job store
VARIABLES
  jobs,     \* _jobs: the in-memory index, job id -> record (NoJob: no entry)
  disk,     \* the state directory: job id -> record last written by _persist
  pc,       \* per job: where its creator / its run_clone_job thread stands
  loc,      \* per job: the locals of run_clone_job
  hist,     \* per job: every status its indexed record has had, in order
  calls,    \* per job: number of calls made to each collaborator
  pg,       \* policy-guard harness: payload drawn and verdict returned
  qc,       \* QC-tool harness: inputs drawn and result returned
  tmp,      \* the state directory: job id -> content of its ".tmp" file
  lock,     \* _lock: the thread that holds it, NoneVal when it is free
  th,       \* per store thread: the call it is in and the step it is at
  gh,       \* history of the store calls (read by no step of the program)
  cache,    \* the TTS cache directory and /tmp: path -> content of the file
  elevenlabs, \* history of the synthesis requests and provider calls
  cl,       \* per synthesis caller: the request it is in and its step
  ck,       \* cache-key harness: two calls drawn and the keys computed
  sc,       \* scoring harness: the evaluation drawn and the tool's answer
  su,       \* settings harness: the payload drawn, settings sent and recorded
  sp,       \* splitter harness: the text drawn and the provider calls made
  ts,       \* voice service task store: Redis, task_storage and its history
  mark      \* per job: the events its record held when its status last changed

vars ==
  <<jobs, disk, pc, loc, hist, calls, pg, qc, tmp, lock, th, gh, cache,
    elevenlabs, cl, ck, sc, su, sp, ts, mark>>

NoJob == [none |-> TRUE]

Terminal == {"completed", "failed"}

\* jobs.py create_job: the record a new job starts with
NewJob(id, payload) ==
  [id |-> id, status |-> "queued", payload |-> payload,
   events |-> <<>>, error |-> NoneVal, result |-> NoneDict]

\* dict.update(updates): the fields of updates replace those of job
Merge(job, updates) ==
  [k \in DOMAIN job |-> IF k \in DOMAIN updates THEN updates[k] ELSE job[k]]

\* jobs.py _persist: the record replaces the file at the job's path
\* (temporary file, then os.replace)
_persist(d, job) == [d EXCEPT ![job.id] = job]

\* jobs.py create_job
create_job(id, payload) ==
  /\ jobs' = [jobs EXCEPT ![id] = NewJob(id, payload)]
  /\ disk' = _persist(disk, NewJob(id, payload))

\* jobs.py update_job: an id the index does not hold is left alone
update_job(id, updates) ==
  IF jobs[id] = NoJob
  THEN UNCHANGED <<jobs, disk>>
  ELSE /\ jobs' = [jobs EXCEPT ![id] = Merge(@, updates)]
       /\ disk' = _persist(disk, Merge(jobs[id], updates))

\* jobs.py add_event
add_event(id, message) ==
  IF jobs[id] = NoJob
  THEN UNCHANGED <<jobs, disk>>
  ELSE /\ jobs' = [jobs EXCEPT ![id].events = Append(@, message)]
       /\ disk' = _persist(disk, [jobs[id] EXCEPT !.events = Append(@, message)])

set_status(id, status) == update_job(id, [status |-> status])

\* (a variant of set_error that records the error and leaves the status)
set_error_only(id, error) == update_job(id, [error |-> error])

set_error(id, error) == update_job(id, [status |-> "failed", error |-> error])

set_result(id, result) == update_job(id, [status |-> "completed", result |-> result])

\* ------------------------------------------------------------ policy guard
\* the provider spellings the payloads below use, and str.lower().strip()
\* of each
LowerStrip(s) ==
  CASE s = "ElevenLabs" -> "elevenlabs"
    [] s = " elevenlabs " -> "elevenlabs"
    [] s = "OpenAI" -> "openai"
    [] OTHER -> s

\* CloneLimits.max_text_length default, also the guard's own default
DefaultMaxTextLength == 800

\* orchestrator.py _policy_guard, and two variants of it: one that leaves the
\* consent check out, one that checks the provider before the consent
GuardNoConsent(payload) ==
  LET provider == LowerStrip(LET p == Get(payload, "provider", NoneVal)
                             IN IF p = NoneVal THEN "" ELSE p)
      text == Get(payload, "text", <<>>)
      limits == LET l == Get(payload, "limits", NoneDict)
                IN IF l = NoneDict THEN EmptyDict ELSE l
      max_text_length == Get(limits, "max_text_length", DefaultMaxTextLength)
  IN IF provider # "elevenlabs" THEN "provider not ElevenLabs"
     ELSE IF Len(text) > max_text_length THEN "text too long"
     ELSE NoneVal

GuardProviderFirst(payload) ==
  LET provider == LowerStrip(LET p == Get(payload, "provider", NoneVal)
                             IN IF p = NoneVal THEN "" ELSE p)
      consent == Get(payload, "consent_flag", FALSE)
      text == Get(payload, "text", <<>>)
      limits == LET l == Get(payload, "limits", NoneDict)
                IN IF l = NoneDict THEN EmptyDict ELSE l
      max_text_length == Get(limits, "max_text_length", DefaultMaxTextLength)
  IN IF provider # "elevenlabs" THEN "provider not ElevenLabs"
     ELSE IF ~consent THEN "missing consent"
     ELSE IF Len(text) > max_text_length THEN "text too long"
     ELSE NoneVal

_policy_guard(payload) ==
  LET provider == LowerStrip(LET p == Get(payload, "provider", NoneVal)
                             IN IF p = NoneVal THEN "" ELSE p)
      consent == Get(payload, "consent_flag", FALSE)
      text == Get(payload, "text", <<>>)
      limits == LET l == Get(payload, "limits", NoneDict)
                IN IF l = NoneDict THEN EmptyDict ELSE l
      max_text_length == Get(limits, "max_text_length", DefaultMaxTextLength)
  IN IF ~consent THEN "missing consent"
     ELSE IF provider # "elevenlabs" THEN "provider not ElevenLabs"
     ELSE IF Len(text) > max_text_length THEN "text too long"
     ELSE NoneVal

\* An optional key of a dict: the one-field function, or no field at all.
EmptyFcn == [x \in {} |-> x]
Opt(present, k, v) == IF present THEN k :> v ELSE EmptyFcn

\* The payloads the guard is applied to in isolation: every combination of
\* consent (missing, False, True), provider (missing, None, five spellings),
\* text length and limits (missing, None, {}, a configured maximum).
GuardConsents == {Absent, "False", "True"}
GuardProviders ==
  {Absent, NoneVal, "", "elevenlabs", "ElevenLabs", " elevenlabs ", "openai", "OpenAI"}
GuardTextLens == {0, 2, 3, DefaultMaxTextLength, DefaultMaxTextLength + 1}
GuardLimits == {Absent, "None", "empty", "max2", "max0"}

GuardPayload(c, p, n, l) ==
  Opt(c # Absent, "consent_flag", c = "True")
  @@ Opt(p # Absent, "provider", p)
  @@ ("text" :> Text(n))
  @@ Opt(l # Absent, "limits",
         CASE l = "None" -> NoneDict
           [] l = "empty" -> EmptyDict
           [] l = "max2" -> [max_text_length |-> 2]
           [] OTHER -> [max_text_length |-> 0])

GuardPayloads ==
  { GuardPayload(c, p, n, l) :
      c \in GuardConsents, p \in GuardProviders, n \in GuardTextLens, l \in GuardLimits }

NotRun == "<not run>"

\* ----------------------------------------------------------------- QC tool
\* quality_control_tool.py _run's own defaults (ten-thousandths)
QcDefaultMaxWer == 1500
QcDefaultMinCosine == 8000
QcDefaultBump == 500
QcDefaultCap == 9500
QcDefaultSimilarityBoost == 7000

Min(a, b) == IF a <= b THEN a ELSE b

\* round(x, 3): the multiple of 0.001 nearest to x (and a variant that cuts
\* the fourth decimal off).  Where the fourth decimal is a 5 Python decides
\* by the binary value of the float, which lies on one side of the tie; the
\* even neighbour stands for it here, and no input of the harness is a tie.
Round3Down(x) == x - (x % 10)

Round3(x) ==
  LET r == x % 10
      down == x - r
  IN IF r < 5 THEN down
     ELSE IF r > 5 THEN down + 10
     ELSE IF (down \div 10) % 2 = 0 THEN down ELSE down + 10

\* quality_control_tool.py _run, "Decision Logic": both gates must be met
\* (and a variant in which one gate is enough)
QcPassedEither(wer, cosine_sim, max_wer, min_cosine) ==
  wer <= max_wer \/ cosine_sim >= min_cosine

QcPassed(wer, cosine_sim, max_wer, min_cosine) ==
  wer <= max_wer /\ cosine_sim >= min_cosine

\* quality_control_tool.py _run, "if not is_retry": a failed evaluation asks
\* for a retry only when it is not itself the retry (and a variant that
\* always asks)
QcMayRetryAlways(is_retry) == TRUE

QcMayRetry(is_retry) == ~is_retry

\* quality_control_tool.py _run lines 69-72: recommended_settings is a copy
\* of current_settings, with the rounded new similarity_boost when the
\* cosine gate failed (and a variant that sets it in either case)
QcRecommendedAlwaysBumped(current_settings, passed_cosine, new_sim_boost) ==
  ("similarity_boost" :> Round3(new_sim_boost)) @@ current_settings

QcRecommendedSettings(current_settings, passed_cosine, new_sim_boost) ==
  IF passed_cosine THEN current_settings
  ELSE ("similarity_boost" :> Round3(new_sim_boost)) @@ current_settings

\* quality_control_tool.py _run from its "Parameters from settings" on:
\* wer and cosine_sim are what _calculate_wer and _calculate_similarity
\* returned (the scores come with four decimals here, so the round(., 4)
\* of the metrics changes nothing); the transcript is carried in the metrics
\* unread and left out.
QcDecide(wer, cosine_sim, gen_wav_path, current_settings, is_retry) ==
  LET gates == Get(current_settings, "qc_gates", EmptyDict)
      max_wer == Get(gates, "max_wer", QcDefaultMaxWer)
      min_cosine == Get(gates, "min_cosine", QcDefaultMinCosine)
      retry_params == Get(current_settings, "retry_params", EmptyDict)
      cosine_bump_similarity ==
        Get(retry_params, "cosine_bump_similarity", QcDefaultBump)
      similarity_cap == Get(retry_params, "similarity_cap", QcDefaultCap)
      metrics == [wer |-> wer, speaker_cosine |-> cosine_sim]
      passed_wer == wer <= max_wer
      passed_cosine == cosine_sim >= min_cosine
      passed == QcPassed(wer, cosine_sim, max_wer, min_cosine)
      new_sim_boost ==
        Min(Get(current_settings, "similarity_boost", QcDefaultSimilarityBoost)
              + cosine_bump_similarity,
            similarity_cap)
      recommended_settings ==
        QcRecommendedSettings(current_settings, passed_cosine, new_sim_boost)
  IN IF passed
     THEN [decision |-> "pass", metrics |-> metrics,
           final_wav_path |-> gen_wav_path,
           retries_used |-> IF is_retry THEN 1 ELSE 0,
           notes |-> <<"All quality checks passed.">>]
     ELSE IF QcMayRetry(is_retry)
     THEN [decision |-> "retry", metrics |-> metrics,
           notes |-> (IF passed_wer THEN <<>> ELSE <<"WER exceeds max.">>)
                     \o (IF passed_cosine THEN <<>>
                         ELSE <<"Cosine similarity is below min.",
                                "Recommending similarity_boost increase.">>),
           recommended_settings |-> recommended_settings]
     ELSE [decision |-> "fail", metrics |-> metrics,
           final_wav_path |-> gen_wav_path, retries_used |-> 1,
           notes |-> <<"Failed quality checks after one retry.">>]

\* quality_control_tool.py _run: without numpy, librosa or whisper the tool
\* answers with an error and no decision
QcRun(deps, wer, cosine_sim, gen_wav_path, current_settings, is_retry) ==
  IF ~deps THEN [error |-> "Missing dependency"]
  ELSE QcDecide(wer, cosine_sim, gen_wav_path, current_settings, is_retry)

\* ---------------------------------------------------------------- scoring
\* The names bound at module level in quality_control_tool.py.  numpy (np),
\* librosa and whisper are imported inside _run (lines 27-29) and so are
\* locals of _run; _calculate_wer and _calculate_similarity are other
\* functions and look these names up in the module, where they are not
\* bound: the lookup raises NameError.
ModuleGlobals == {"json", "os", "Dict", "Any", "BaseTool", "QualityControlTool"}

NameBound(name) == name \in ModuleGlobals

\* A text is the sequence of its whitespace-separated tokens.
MaxWords == 2
Tokens == {"a", "B.", "-"}

\* _normalize_text on one token: lower case, the characters .,?!-";: removed
NormalizeToken(w) ==
  CASE w = "a" -> "a" [] w = "B." -> "b" [] w = "-" -> "" [] OTHER -> w

\* quality_control_tool.py _normalize_text: split() drops what is left empty
_normalize_text(text) ==
  SelectSeq([i \in 1..Len(text) |-> NormalizeToken(text[i])], LAMBDA w : w # "")

Min3(a, b, c) == Min(a, Min(b, c))

\* quality_control_tool.py _calculate_wer, "Levenshtein distance
\* calculation": d[len(norm_ref), len(norm_hyp)] of the matrix it fills
RECURSIVE Levenshtein(_, _)
Levenshtein(norm_ref, norm_hyp) ==
  IF norm_ref = <<>> THEN Len(norm_hyp)
  ELSE IF norm_hyp = <<>> THEN Len(norm_ref)
  ELSE LET cost == IF norm_ref[Len(norm_ref)] = norm_hyp[Len(norm_hyp)]
                   THEN 0 ELSE 1
           ref1 == SubSeq(norm_ref, 1, Len(norm_ref) - 1)
           hyp1 == SubSeq(norm_hyp, 1, Len(norm_hyp) - 1)
       IN Min3(Levenshtein(ref1, norm_hyp) + 1,
               Levenshtein(norm_ref, hyp1) + 1,
               Levenshtein(ref1, hyp1) + cost)

\* quality_control_tool.py _calculate_wer's "except Exception"
WerFallback(ref_text) == [transcript |-> ref_text, wer |-> 0]

\* quality_control_tool.py _calculate_wer.  env.asr says whether whisper
\* would load and transcribe ("ok") or raise, env.heard is the text it would
\* transcribe from the generated audio.  The division is cut to four
\* decimals.
_calculate_wer(env, ref_text) ==
  IF ~NameBound("whisper") \/ env.asr # "ok" \/ ~NameBound("np")
  THEN WerFallback(ref_text)
  ELSE LET norm_ref == _normalize_text(ref_text)
           norm_hyp == _normalize_text(env.heard)
       IN [transcript |-> env.heard,
           wer |-> IF Len(norm_ref) > 0
                   THEN (Levenshtein(norm_ref, norm_hyp) * 10000)
                          \div Len(norm_ref)
                   ELSE 0]

\* quality_control_tool.py _calculate_similarity's "except Exception" and
\* "return 0.0"
SimilarityFallback == 0

\* quality_control_tool.py _calculate_similarity.  env.emb says whether
\* librosa would load both files ("ok"), find one of them empty ("empty") or
\* raise; env.dot is the dot product of the two embeddings.  (And a variant
\* whose fallback is a full score.)
SimilarityFallsBackFull(env) ==
  IF ~NameBound("librosa") \/ ~NameBound("np") \/ env.emb = "raises"
  THEN 10000
  ELSE IF env.emb = "empty" THEN 10000
  ELSE env.dot

_calculate_similarity(env) ==
  IF ~NameBound("librosa") \/ ~NameBound("np") \/ env.emb = "raises"
  THEN SimilarityFallback
  ELSE IF env.emb = "empty" THEN SimilarityFallback
  ELSE env.dot

\* QualityControlTool._run as a whole: the imports, the two scores, the
\* decision
_run(env, text, gen_wav_path, current_settings, is_retry) ==
  LET scored == _calculate_wer(env, text)
      cosine_sim == _calculate_similarity(env)
  IN QcRun(env.deps, scored.wer, cosine_sim, gen_wav_path, current_settings,
           is_retry)

RECURSIVE TextsOf(_)
TextsOf(n) ==
  IF n = 0 THEN {<<>>}
  ELSE LET shorter == TextsOf(n - 1)
       IN shorter \cup {Append(t, w) : t \in {u \in shorter : Len(u) = n - 1},
                                      w \in Tokens}

ScGates == {Absent, "strict", "cos0", "cos0.0001"}

ScSettings(g) ==
  Opt(g # Absent, "qc_gates",
      CASE g = "strict" -> [max_wer |-> 1000, min_cosine |-> 8500]
        [] g = "cos0" -> [min_cosine |-> 0]
        [] OTHER -> [min_cosine |-> 1])

\* The evaluations drawn: every pair of a reference text and a text heard
\* in the generated audio, of at most n tokens each.
ScInputs(n) ==
  { [env |-> [deps |-> d, asr |-> a, heard |-> h, emb |-> e, dot |-> x],
     text |-> t, gen_wav_path |-> "/tmp/gen.wav",
     current_settings |-> ScSettings(g), is_retry |-> i] :
      d \in BOOLEAN, a \in {"ok", "raises"}, h \in TextsOf(n),
      e \in {"ok", "empty", "raises"}, x \in {9000},
      t \in TextsOf(n), g \in ScGates, i \in BOOLEAN }

\* The inputs the tool is evaluated on in isolation (ten-thousandths).
QcWers == {0, 1000, 1010, 1500, 1510, 10000}
QcCosines == {0, 7990, 8000, 8500, 10000}
QcGates == {Absent, "empty", "strict", "wer0", "cos0"}
QcRetryParams == {Absent, "empty", "bump100cap900", "cap0.9006"}
QcBoosts == {Absent, "0.88", "1.0", "0.7004"}

QcSettings(g, r, b) ==
  Opt(g # Absent, "qc_gates",
      CASE g = "strict" -> [max_wer |-> 1000, min_cosine |-> 8500]
        [] g = "wer0" -> [max_wer |-> 0]
        [] g = "cos0" -> [min_cosine |-> 0]
        [] OTHER -> EmptyDict)
  @@ Opt(r # Absent, "retry_params",
         CASE r = "bump100cap900" ->
                [cosine_bump_similarity |-> 1000, similarity_cap |-> 9000]
           [] r = "cap0.9006" -> [similarity_cap |-> 9006]
           [] OTHER -> EmptyDict)
  @@ Opt(b # Absent, "similarity_boost",
         CASE b = "0.88" -> 8800 [] b = "0.7004" -> 7004 [] OTHER -> 10000)

QcInputs ==
  { [deps |-> d, wer |-> w, cosine_sim |-> c, gen_wav_path |-> "/tmp/gen.wav",
     current_settings |-> QcSettings(g, r, b), is_retry |-> i] :
      d \in BOOLEAN, w \in QcWers, c \in QcCosines,
      g \in QcGates, r \in QcRetryParams, b \in QcBoosts, i \in BOOLEAN }

\* ------------------------------------------------------------ orchestrator
\* CloneQC / run_clone_job defaults for the gates and the retry parameters
CloneMaxWer == 1500
CloneMinCosine == 8000
CloneBump == 500
CloneSimilarityCap == 9000
CloneStabilityBump == 500
CloneStabilityCap == 7500

\* STABILITY_DEFAULT, SIMILARITY_DEFAULT, STYLE_DEFAULT, SPEED_DEFAULT
StabilityDefault == 5500
SimilarityDefault == 7000
StyleDefault == 0
SpeedDefault == 10000

\* The payload start_clone builds for a well-formed request, and the other
\* payloads jobs are created with: each differs from it in one field.
BasePayload ==
  [text |-> Text(2), voice_id |-> "V1", mode |-> "narration",
   provider |-> "elevenlabs", consent_flag |-> TRUE,
   limits |-> [max_text_length |-> 2], qc |-> EmptyDict,
   defaults |-> EmptyDict, raw_audio_path |-> "/uploads/ref.wav"]

Without(r, key) == [k \in DOMAIN r \ {key} |-> r[k]]

Payloads ==
  { BasePayload,
    [BasePayload EXCEPT !.qc = [max_wer |-> 1000, min_cosine |-> 8500]],
    [BasePayload EXCEPT !.qc = NoneDict],
    [BasePayload EXCEPT !.provider = "ElevenLabs"],
    [BasePayload EXCEPT !.consent_flag = FALSE],
    Without(BasePayload, "consent_flag"),
    [BasePayload EXCEPT !.provider = "openai"],
    [BasePayload EXCEPT !.text = Text(3)],
    Without(BasePayload, "raw_audio_path") }

\* What the generated audio would score: word error rate and speaker cosine
\* (ten-thousandths).
Audios == { [wer |-> 0, cosine_sim |-> 9000], [wer |-> 1200, cosine_sim |-> 8200],
            [wer |-> 2000, cosine_sim |-> 7000] }

InitLoc ==
  [ap_result |-> NoneDict, clean_wav_path |-> NoneVal, audio |-> NoneDict,
   qc_result |-> NoneDict, final_decision |-> NoneVal, e |-> NoneVal]

GenWavPath(j) == [job |-> j, file |-> "preview.wav"]

StatusOf(job) == IF job = NoJob THEN Absent ELSE job.status

\* hist records every change of a job's status in the index, mark the
\* number of events the record held at the last change.
Observe ==
  /\ hist' = [k \in JobIds |->
                IF StatusOf(jobs'[k]) # StatusOf(jobs[k])
                THEN Append(hist[k], StatusOf(jobs'[k]))
                ELSE hist[k]]
  /\ mark' = [k \in JobIds |->
                IF StatusOf(jobs'[k]) # StatusOf(jobs[k]) /\ jobs'[k] # NoJob
                THEN Len(jobs'[k].events)
                ELSE mark[k]]

Goto(j, label) == pc' = [pc EXCEPT ![j] = label]

Idle ==
  UNCHANGED <<pg, qc, tmp, lock, th, gh, cache, elevenlabs, cl, ck, sc, su, sp, ts>>

\* f"Input unusable: {err}"
InputUnusable(err) ==
  CASE err = "missing consent" -> "Input unusable: missing consent"
    [] err = "provider not ElevenLabs" -> "Input unusable: provider not ElevenLabs"
    [] OTHER -> "Input unusable: text too long"

\* main.py start_clone: jobs.create_job(payload)
CreateJob(j) ==
  /\ pc[j] = "idle"
  /\ \E payload \in Payloads : create_job(j, payload)
  /\ Goto(j, "created")
  /\ Observe
  /\ UNCHANGED <<loc, calls>> /\ Idle

\* main.py start_clone: jobs.add_event(..., "Job created") and
\* start_clone_job_async, which starts the job's thread
StartJob(j) ==
  /\ pc[j] = "created"
  /\ add_event(j, "Job created")
  /\ Goto(j, "L36")
  /\ Observe
  /\ UNCHANGED <<loc, calls>> /\ Idle

\* orchestrator.py run_clone_job line 36
SetValidating(j) ==
  /\ pc[j] = "L36"
  /\ set_status(j, "validating")
  /\ Goto(j, "L37")
  /\ Observe
  /\ UNCHANGED <<loc, calls>> /\ Idle

\* line 37
PolicyEvent(j) ==
  /\ pc[j] = "L37"
  /\ add_event(j, "Running policy and cost guard")
  /\ Goto(j, "L38")
  /\ Observe
  /\ UNCHANGED <<loc, calls>> /\ Idle

\* lines 38-47: the policy guard, then the reference audio must be named
\* and exist (whether the file exists is the file system's answer)
Guard(j) ==
  /\ pc[j] = "L38"
  /\ LET payload == jobs[j].payload
         err == _policy_guard(payload)
         raw_audio_path == Get(payload, "raw_audio_path", NoneVal)
     IN \E exists \in BOOLEAN :
          IF err # NoneVal
          THEN set_error(j, InputUnusable(err)) /\ Goto(j, "done")
          ELSE IF raw_audio_path = NoneVal \/ ~exists
          THEN /\ set_error(j, "raw_audio_path is required and must exist")
               /\ Goto(j, "done")
          ELSE UNCHANGED <<jobs, disk>> /\ Goto(j, "L50")
  /\ Observe
  /\ UNCHANGED <<loc, calls>> /\ Idle

\* lines 185-186: the fault barrier of run_clone_job, and a variant of it
\* that swallows the fault without recording it
OrchestrationErrorSilent(j) == UNCHANGED <<jobs, disk>> /\ Goto(j, "done")

OrchestrationError(j) == set_error(j, "Orchestration error") /\ Goto(j, "done")

\* lines 50-72 and 78-79: the optional crew; CREWAI_RUN is read from the
\* environment, build_voice_crew may raise, return None or return a crew
CrewInit(j) ==
  /\ pc[j] = "L50"
  /\ \E outcome \in {"off", "none", "raises", "crew"} :
       CASE outcome = "raises" ->
              add_event(j, "CrewAI init skipped") /\ Goto(j, "L81")
         [] outcome = "crew" ->
              add_event(j, "CrewAI kickoff") /\ Goto(j, "L74")
         [] OTHER -> UNCHANGED <<jobs, disk>> /\ Goto(j, "L81")
  /\ Observe
  /\ UNCHANGED <<loc, calls>> /\ Idle

\* lines 76-77: an exception of crew.kickoff() becomes an event (and a
\* variant in which it fails the job)
CrewErrorFails(j) == set_error(j, "CrewAI error")

CrewError(j) == add_event(j, "CrewAI error")

\* lines 73-77: crew.kickoff() returns or raises
CrewKickoff(j) ==
  /\ pc[j] = "L74"
  /\ \E raised \in BOOLEAN :
       IF raised THEN CrewError(j) ELSE add_event(j, "CrewAI finished")
  /\ Goto(j, "L81")
  /\ Observe
  /\ UNCHANGED <<loc, calls>> /\ Idle

\* line 81
SetIngesting(j) ==
  /\ pc[j] = "L81"
  /\ set_status(j, "ingesting")
  /\ Goto(j, "L82")
  /\ Observe
  /\ UNCHANGED <<loc, calls>> /\ Idle

\* line 82
IngestEvent(j) ==
  /\ pc[j] = "L82"
  /\ add_event(j, "Preprocessing audio")
  /\ Goto(j, "L84")
  /\ Observe
  /\ UNCHANGED <<loc, calls>> /\ Idle

\* audio_processing_tool.py _run lines 48-110: what the tool finds, and the
\* JSON it returns for it.  Every failure inside the tool, a fault of its own
\* included, comes back as a structured error.
ApConditions == {"no_speech", "short_speech", "fault", "ok"}

AudioProcessingRun(cond) ==
  CASE cond = "no_speech" ->
         [error |-> "No speech detected (VAD found no segments)"]
    [] cond = "short_speech" ->
         [error |-> "Input is unusable. Total detected speech is less than the 10s minimum."]
    [] cond = "fault" ->
         [error |-> "An unexpected error occurred during audio processing"]
    [] OTHER -> [clean_wav_path |-> "/tmp/ref_clean.wav"]

\* What line 86 can hand to run_clone_job: a result of the tool, a dict with
\* neither an error nor a path, or an exception
Raised == [raised |-> TRUE]
ApOutcomes == {AudioProcessingRun(c) : c \in ApConditions} \cup {EmptyDict, Raised}

\* f"Audio preprocessing error: {parsed.get('error')}"
PreprocessingError(reason) ==
  CASE reason = "No speech detected (VAD found no segments)" ->
         "Audio preprocessing error: No speech detected (VAD found no segments)"
    [] reason = "Input is unusable. Total detected speech is less than the 10s minimum." ->
         "Audio preprocessing error: Input is unusable. Total detected speech is less than the 10s minimum."
    [] OTHER ->
         "Audio preprocessing error: An unexpected error occurred during audio processing"

\* lines 92-102: the error the job is failed with, None to go on; and a
\* variant that does not look for the error key of the result
PreprocessVerdictNoErrorKey(parsed, exists) ==
  IF parsed = Raised THEN "Audio preprocessing failed"
  ELSE IF Get(parsed, "clean_wav_path", NoneVal) = NoneVal \/ ~exists
  THEN "Audio processing failed to produce an output file"
  ELSE NoneVal

PreprocessVerdict(parsed, exists) ==
  IF parsed = Raised THEN "Audio preprocessing failed"
  ELSE IF Get(parsed, "error", NoneVal) # NoneVal
  THEN PreprocessingError(parsed.error)
  ELSE IF Get(parsed, "clean_wav_path", NoneVal) = NoneVal \/ ~exists
  THEN "Audio processing failed to produce an output file"
  ELSE NoneVal

\* lines 83-102: AudioProcessingTool()._run is called; whether the file it
\* names exists is the file system's answer
Preprocess(j) ==
  /\ pc[j] = "L84"
  /\ calls' = [calls EXCEPT ![j].pre = @ + 1]
  /\ \E parsed \in ApOutcomes, exists \in BOOLEAN :
       LET clean_wav_path == Get(parsed, "clean_wav_path", NoneVal)
           usable == clean_wav_path # NoneVal /\ exists
           verdict == PreprocessVerdict(parsed, exists)
       IN /\ loc' = [loc EXCEPT
                       ![j].ap_result = [returned |-> parsed, usable |-> usable],
                       ![j].clean_wav_path =
                          IF verdict = NoneVal THEN clean_wav_path ELSE @,
                       ![j].e = IF parsed = Raised THEN "L86" ELSE @]
          /\ IF verdict # NoneVal
             THEN set_error(j, verdict) /\ Goto(j, "done")
             ELSE add_event(j, "Audio preprocessed") /\ Goto(j, "L105")
  /\ Observe
  /\ Idle

\* line 105
SetSynthesizing(j) ==
  /\ pc[j] = "L105"
  /\ set_status(j, "synthesizing")
  /\ Goto(j, "L109")
  /\ Observe
  /\ UNCHANGED <<loc, calls>> /\ Idle

\* lines 111-113: no audio fails the job and ends the run (and a variant
\* that goes back to the synthesis call)
TtsGenerationRetried(j) == UNCHANGED <<jobs, disk>> /\ Goto(j, "L109")

TtsGenerationFailed(j) ==
  set_error(j, "TTS generation failed") /\ Goto(j, "done")

\* lines 106-113: synthesize_with_elevenlabs_simple returns None (no client,
\* a provider fault, empty audio) or the audio
Synthesize(j) ==
  /\ pc[j] = "L109"
  /\ calls' = [calls EXCEPT ![j].tts = @ + 1]
  /\ \E audio_b64 \in {"None", "audio"} :
       IF audio_b64 = "None"
       THEN TtsGenerationFailed(j)
       ELSE UNCHANGED <<jobs, disk>> /\ Goto(j, "L116")
  /\ Observe
  /\ UNCHANGED loc /\ Idle

\* lines 115-128: the audio is decoded and written as a wav file for QC;
\* what it would score is fixed from here on
PrepareAudio(j) ==
  /\ pc[j] = "L116"
  /\ \/ /\ set_error(j, "Failed to prepare generated audio for QC")
        /\ Goto(j, "done") /\ loc' = [loc EXCEPT ![j].e = "L117"]
     \/ /\ \E a \in Audios : loc' = [loc EXCEPT ![j].audio = a]
        /\ Goto(j, "L131") /\ UNCHANGED <<jobs, disk>>
  /\ Observe
  /\ UNCHANGED calls /\ Idle

\* line 131
SetVerifying(j) ==
  /\ pc[j] = "L131"
  /\ set_status(j, "verifying")
  /\ Goto(j, "L132")
  /\ Observe
  /\ UNCHANGED <<loc, calls>> /\ Idle

\* lines 132-142: the gates and the retry parameters of the payload
QcSettingsOf(payload) ==
  LET qc_config == Get(payload, "qc", EmptyDict)
  IN [qc_gates |->
        [max_wer |-> Get(qc_config, "max_wer", CloneMaxWer),
         min_cosine |-> Get(qc_config, "min_cosine", CloneMinCosine)],
      retry_params |->
        [cosine_bump_similarity |->
           Get(qc_config, "cosine_bump_similarity", CloneBump),
         similarity_cap |-> Get(qc_config, "similarity_cap", CloneSimilarityCap),
         cosine_bump_stability |->
           Get(qc_config, "cosine_bump_stability", CloneStabilityBump),
         stability_cap |-> Get(qc_config, "stability_cap", CloneStabilityCap)]]

\* What json.dumps returns: a text, which has no .get
JsonText == [json |-> TRUE]
IsDict(r) == "json" \notin DOMAIN r

\* lines 132-155 with a QC engine that takes the call as the orchestrator
\* makes it (keywords gates and retry) and answers with a dict: it scores
\* the audio and decides by the tool's rule, as a first evaluation or as a
\* retry, or lacks its dependencies, or answers with text, or raises.
\* payload["qc"] = None faults at line 134 (None has no .get).
VerifyEngine(j) ==
  /\ pc[j] = "L132"
  /\ LET payload == jobs[j].payload
         audio == loc[j].audio
     IN IF Get(payload, "qc", EmptyDict) = NoneDict
        THEN /\ OrchestrationError(j) /\ UNCHANGED calls
             /\ loc' = [loc EXCEPT ![j].e = "L134"]
        ELSE /\ calls' = [calls EXCEPT ![j].qc = @ + 1]
             /\ \/ /\ set_error(j, "QC check failed")
                   /\ Goto(j, "done") /\ loc' = [loc EXCEPT ![j].e = "L146"]
                \/ /\ \E deps \in BOOLEAN, is_retry \in BOOLEAN :
                        loc' = [loc EXCEPT ![j].qc_result =
                                  QcRun(deps, audio.wer, audio.cosine_sim,
                                        GenWavPath(j), QcSettingsOf(payload),
                                        is_retry)]
                   /\ Goto(j, "L158") /\ UNCHANGED <<jobs, disk>>
                \/ /\ loc' = [loc EXCEPT ![j].qc_result = JsonText]
                   /\ Goto(j, "L158") /\ UNCHANGED <<jobs, disk>>
  /\ Observe
  /\ Idle

\* The keywords of the call at lines 146-152, and the parameters of
\* QualityControlTool._run (is_retry has a default).
QcCallKeywords == {"text", "gen_wav_path", "ref_voice_wav", "gates", "retry"}
QcRunParameters ==
  {"text", "gen_wav_path", "ref_voice_wav", "current_settings", "is_retry"}
QcRunOptional == {"is_retry"}

\* Python binds a keyword call when every keyword is a parameter and every
\* parameter without a default is given; otherwise the call raises TypeError.
CallBinds(keywords, parameters, optional) ==
  /\ keywords \subseteq parameters
  /\ (parameters \ optional) \subseteq keywords

\* lines 132-155 with the repository's QualityControlTool: the call is
\* bound to _run's parameters first; _run answers with json.dumps text
VerifyTool(j) ==
  /\ pc[j] = "L132"
  /\ LET payload == jobs[j].payload
     IN IF Get(payload, "qc", EmptyDict) = NoneDict
        THEN /\ OrchestrationError(j) /\ UNCHANGED calls
             /\ loc' = [loc EXCEPT ![j].e = "L134"]
        ELSE /\ calls' = [calls EXCEPT ![j].qc = @ + 1]
             /\ IF ~CallBinds(QcCallKeywords, QcRunParameters, QcRunOptional)
                THEN /\ set_error(j, "QC check failed")
                     /\ Goto(j, "done") /\ loc' = [loc EXCEPT ![j].e = "L146"]
                ELSE /\ loc' = [loc EXCEPT ![j].qc_result = JsonText]
                     /\ Goto(j, "L158") /\ UNCHANGED <<jobs, disk>>
  /\ Observe
  /\ Idle

\* lines 157-164
Decide(j) ==
  /\ pc[j] = "L158"
  /\ LET qc_result == loc[j].qc_result
         final_decision == Get(qc_result, "decision", "fail")
     IN IF ~IsDict(qc_result)
        THEN OrchestrationError(j) /\ loc' = [loc EXCEPT ![j].e = "L158"]
        ELSE /\ set_status(j, IF final_decision = "pass" THEN "completed" ELSE "failed")
             /\ loc' = [loc EXCEPT ![j].final_decision = final_decision]
             /\ Goto(j, "L166")
  /\ Observe
  /\ UNCHANGED calls /\ Idle

\* lines 166-172: settings_used, read from the payload's defaults
SettingsUsed(payload) ==
  LET defaults == Get(payload, "defaults", EmptyDict)
  IN [stability |-> Get(defaults, "stability", StabilityDefault),
      similarity_boost |-> Get(defaults, "similarity_boost", SimilarityDefault),
      style |-> Get(defaults, "style", StyleDefault),
      speed |-> Get(defaults, "speed", SpeedDefault)]

\* lines 166-181
ResultPayload(j) ==
  LET payload == jobs[j].payload
      qc_result == loc[j].qc_result
      final_decision == loc[j].final_decision
  IN [ok |-> final_decision = "pass",
      reason |-> IF final_decision = "pass" THEN <<"checks passed">>
                 ELSE <<"QC failed:">> \o Get(qc_result, "notes", <<"unspecified">>),
      decision |-> final_decision,
      metrics |-> Get(qc_result, "metrics", NoneDict),
      clean_wav_path |-> loc[j].clean_wav_path,
      gen_wav_path |-> GenWavPath(j),
      settings_used |-> SettingsUsed(payload)]

\* line 183
Assemble(j) ==
  /\ pc[j] = "L166"
  /\ set_result(j, ResultPayload(j))
  /\ Goto(j, "done")
  /\ Observe
  /\ UNCHANGED <<loc, calls>> /\ Idle

\* ------------------------------------------------------------------- faults
\* The lines of run_clone_job outside the inner try blocks: an exception
\* raised there is caught at line 185.  (A fault inside the crew block is
\* caught at lines 76-79 and one inside the preprocessing, audio and QC
\* blocks at lines 100, 126 and 153: the steps above have those outcomes.)
FaultPoints ==
  {"L36", "L37", "L38", "L81", "L82", "L105", "L109", "L131", "L132",
   "L158", "L166"}

\* jobs.py update_job lines 70-72: what the store call that the thread is
\* about to make writes into the indexed record before it persists it
PendingUpdate(j) ==
  CASE pc[j] = "L36" -> [status |-> "validating"]
    [] pc[j] = "L81" -> [status |-> "ingesting"]
    [] pc[j] = "L105" -> [status |-> "synthesizing"]
    [] pc[j] = "L131" -> [status |-> "verifying"]
    [] pc[j] = "L166" -> [status |-> "completed", result |-> ResultPayload(j)]
    [] OTHER -> EmptyDict

\* An exception is raised by the code of the line the thread has reached,
\* before any store call of the line: line 185 catches it and line 186
\* records it.
Fault(j) ==
  /\ pc[j] \in FaultPoints
  /\ OrchestrationError(j)
  /\ loc' = [loc EXCEPT ![j].e = pc[j]]
  /\ Observe
  /\ UNCHANGED calls /\ Idle

\* The store call of the line changes the indexed record and its _persist
\* (jobs.py 102-108) raises: the file keeps the older record and control
\* passes to line 185.
PersistFault(j) ==
  /\ pc[j] \in FaultPoints
  /\ PendingUpdate(j) # EmptyDict
  /\ jobs' = [jobs EXCEPT ![j] = Merge(@, PendingUpdate(j))]
  /\ UNCHANGED disk
  /\ loc' = [loc EXCEPT ![j].e = pc[j]]
  /\ Goto(j, "L185")
  /\ Observe
  /\ UNCHANGED calls /\ Idle

\* lines 185-186
Handle(j) ==
  /\ pc[j] = "L185"
  /\ OrchestrationError(j)
  /\ Observe
  /\ UNCHANGED <<loc, calls>> /\ Idle

\* ------------------------------------------------- job store, step by step
\* The store calls of jobs.py as the threads of one process make them, each
\* call as the steps its code takes, and the process killed and restarted.
MaxOps == 5
MaxCrashes == 1

Threads == {"t1", "t2"}

\* A file whose JSON text is not complete (opened for writing, not yet
\* dumped and closed): json.load raises on it.
Partial == [partial |-> TRUE]

\* The payloads, updates and event message the threads use.
StorePayloads == { [text |-> Text(1)] }
StoreUpdates ==
  { [status |-> "validating"], [status |-> "failed", error |-> "E"] }
StoreEvent == "event"

\* jobs.py _now_iso: the clock; the number of store calls begun so far
\* stands for the time
Now == gh.nops + 1

\* a thread outside any store call; ret is what its last get_job returned
NoRet == [pending |-> TRUE]
ThIdle ==
  [pc |-> "idle", op |-> NoneVal, id |-> 0, arg |-> EmptyDict, job |-> NoJob,
   ret |-> NoRet]

\* nops, crashes: calls begun and kills so far; used: ids create_job has
\* drawn; last: the indexed record when the job's last mutation returned
\* (after a kill that interrupted a mutation of the job: the record the
\* kill left in its file); ideal: every returned mutation of the job
\* applied in order (one whose rename was done when the process was killed
\* counts as returned); persisted: the records _persist was called with;
\* interrupted: the last kill came while a mutation of the job was inside
\* _persist; dirty: a mutation of the job has begun since the process
\* started
GhInit ==
  [nops |-> 0, crashes |-> 0, used |-> {},
   last |-> [j \in JobIds |-> NoJob], ideal |-> [j \in JobIds |-> NoJob],
   persisted |-> [j \in JobIds |-> {}],
   interrupted |-> [j \in JobIds |-> FALSE],
   dirty |-> [j \in JobIds |-> FALSE]]

\* jobs.py _persist line 105, open(tmp_path, "w"): the temporary file is
\* created or truncated; and a variant that opens the job's own path
persist_open_inplace(files, id) == [files EXCEPT !.disk[id] = Partial]

persist_open(files, id) == [files EXCEPT !.tmp[id] = Partial]

\* lines 105-106, json.dump and the close of the with block
persist_dump(files, job) == [files EXCEPT !.tmp[job.id] = job]

\* line 107, os.replace(tmp_path, path); and a variant that leaves the
\* temporary file where it is
persist_replace_skipped(files, id) == files

persist_replace(files, id) ==
  [files EXCEPT !.disk[id] = files.tmp[id], !.tmp[id] = NoJob]

Files == [disk |-> disk, tmp |-> tmp]

StoreFrame ==
  UNCHANGED <<pc, loc, hist, calls, pg, qc, cache, elevenlabs, cl, ck, sc, su, sp, ts,
              mark>>

InPersist(t) == th[t].pc \in {"open", "dump", "replace", "return"}

\* the thread takes the lock and changes the index (the first half of a
\* mutation); _persist follows
Enter(t, op, id, arg, job) ==
  /\ jobs' = [jobs EXCEPT ![id] = job]
  /\ lock' = t
  /\ th' = [th EXCEPT ![t] = [ThIdle EXCEPT !.pc = "open", !.op = op,
                                            !.id = id, !.arg = arg]]
  /\ gh' = [gh EXCEPT !.nops = @ + 1, !.used = @ \cup {id},
                      !.dirty[id] = TRUE]

\* update_job / add_event lines 67-69 and 78-80: no job in the index,
\* None is returned and nothing is changed (and a variant that makes an
\* entry for the id).  An id that callers name and create_job has not drawn
\* is one create_job never draws.
MissCreates(t, op, id) ==
  /\ gh' = [gh EXCEPT !.nops = @ + 1, !.used = @ \cup {id}]
  /\ th' = [th EXCEPT ![t] = [ThIdle EXCEPT !.op = op, !.id = id, !.ret = NoJob]]
  /\ jobs' = [jobs EXCEPT ![id] = NewJob(id, EmptyDict)]
  /\ UNCHANGED lock

ReturnNone(t, op, id) ==
  /\ gh' = [gh EXCEPT !.nops = @ + 1, !.used = @ \cup {id}]
  /\ th' = [th EXCEPT ![t] = [ThIdle EXCEPT !.op = op, !.id = id, !.ret = NoJob]]
  /\ UNCHANGED <<jobs, lock>>

CanBegin(t) == th[t].pc = "idle" /\ lock = NoneVal /\ gh.nops < MaxOps

\* The ids callers can name: an id is drawn inside create_job (uuid4) and
\* is known to nobody before create_job has returned it.
Known == {id \in JobIds : gh.last[id] # NoJob}

\* The ids of no job: create_job has not drawn them and never will.
Strangers == {id \in JobIds : gh.last[id] = NoJob /\ jobs[id] = NoJob
                                /\ disk[id] = NoJob /\ tmp[id] = NoJob}

\* create_job lines 26-42
CreateEnter(t) ==
  /\ CanBegin(t)
  /\ \E id \in JobIds \ gh.used, payload \in StorePayloads :
       Enter(t, "create", id, payload, NewJob(id, payload))
  /\ UNCHANGED <<disk, tmp>> /\ StoreFrame

\* update_job lines 65-72
UpdateEnter(t) ==
  /\ CanBegin(t)
  /\ \E id \in Known \cup Strangers, updates \in StoreUpdates :
       IF jobs[id] = NoJob THEN ReturnNone(t, "update", id)
       ELSE Enter(t, "update", id, updates, Merge(jobs[id], updates))
  /\ UNCHANGED <<disk, tmp>> /\ StoreFrame

\* add_event lines 76-85
AddEventEnter(t) ==
  /\ CanBegin(t)
  /\ \E id \in Known \cup Strangers :
       LET event == [time |-> Now, message |-> StoreEvent]
       IN IF jobs[id] = NoJob THEN ReturnNone(t, "add_event", id)
          ELSE Enter(t, "add_event", id, event,
                     [jobs[id] EXCEPT !.events = Append(@, event)])
  /\ UNCHANGED <<disk, tmp>> /\ StoreFrame

\* _persist line 105: the temporary file is opened
PersistOpen(t) ==
  /\ th[t].pc = "open"
  /\ LET files == persist_open(Files, th[t].id)
     IN disk' = files.disk /\ tmp' = files.tmp
  /\ th' = [th EXCEPT ![t].pc = "dump"]
  /\ gh' = [gh EXCEPT !.persisted[th[t].id] = @ \cup {jobs[th[t].id]}]
  /\ UNCHANGED <<jobs, lock>> /\ StoreFrame

\* _persist lines 105-106: the record is written and the file closed
PersistDump(t) ==
  /\ th[t].pc = "dump"
  /\ LET files == persist_dump(Files, jobs[th[t].id])
     IN disk' = files.disk /\ tmp' = files.tmp
  /\ th' = [th EXCEPT ![t].pc = "replace"]
  /\ UNCHANGED <<jobs, lock, gh>> /\ StoreFrame

\* _persist line 107: the temporary file is renamed to the job's path
PersistReplace(t) ==
  /\ th[t].pc = "replace"
  /\ LET files == persist_replace(Files, th[t].id)
     IN disk' = files.disk /\ tmp' = files.tmp
  /\ th' = [th EXCEPT ![t].pc = "return"]
  /\ UNCHANGED <<jobs, lock, gh>> /\ StoreFrame

\* what a returned mutation makes of a record
Applied(job, op, id, arg) ==
  CASE op = "create" -> NewJob(id, arg)
    [] op = "update" -> Merge(job, arg)
    [] OTHER -> [job EXCEPT !.events = Append(@, arg)]

\* the with block ends: the lock is released and the call returns
MutationReturn(t) ==
  /\ th[t].pc = "return"
  /\ lock' = NoneVal
  /\ th' = [th EXCEPT ![t] = ThIdle]
  /\ gh' = [gh EXCEPT
              !.last[th[t].id] = jobs[th[t].id],
              !.ideal[th[t].id] = Applied(@, th[t].op, th[t].id, th[t].arg)]
  /\ UNCHANGED <<jobs, disk, tmp>> /\ StoreFrame

\* get_job lines 47-51: the index is read under the lock
GetIndex(t) ==
  /\ CanBegin(t)
  /\ \E id \in Known :
       th' = [th EXCEPT ![t] =
                IF jobs[id] # NoJob
                THEN [ThIdle EXCEPT !.op = "get", !.id = id, !.ret = jobs[id]]
                ELSE [ThIdle EXCEPT !.op = "get", !.id = id, !.pc = "read"]]
  /\ gh' = [gh EXCEPT !.nops = @ + 1]
  /\ UNCHANGED <<jobs, disk, tmp, lock>> /\ StoreFrame

\* get_job lines 52-57 and 59-62, outside the lock: the file at the job's
\* path is read; no file, or text that json.load rejects, returns None
GetRead(t) ==
  /\ th[t].pc = "read"
  /\ th' = [th EXCEPT ![t] =
              IF disk[th[t].id] \in {NoJob, Partial}
              THEN [@ EXCEPT !.pc = "idle", !.ret = NoJob]
              ELSE [@ EXCEPT !.pc = "install", !.job = disk[th[t].id]]]
  /\ UNCHANGED <<jobs, disk, tmp, lock, gh>> /\ StoreFrame

\* get_job lines 57-58 and 62: the record read is put into the index under
\* the lock and returned
GetInstall(t) ==
  /\ th[t].pc = "install"
  /\ lock = NoneVal
  /\ jobs' = [jobs EXCEPT ![th[t].id] = th[t].job]
  /\ th' = [th EXCEPT ![t] = [@ EXCEPT !.pc = "idle", !.ret = th[t].job,
                                       !.job = NoJob]]
  /\ UNCHANGED <<disk, tmp, lock, gh>> /\ StoreFrame

\* The process is killed and started again: the index, the lock and the
\* threads are gone, the files stay as they are.
Crash ==
  /\ gh.crashes < MaxCrashes
  /\ gh.used # {}
  /\ jobs' = [j \in JobIds |-> NoJob]
  /\ lock' = NoneVal
  /\ th' = [t \in Threads |-> ThIdle]
  /\ gh' = [gh EXCEPT
              !.crashes = @ + 1,
              !.dirty = [j \in JobIds |-> FALSE],
              !.interrupted = [j \in JobIds |->
                                 \E t \in Threads : InPersist(t) /\ th[t].id = j],
              !.last = [j \in JobIds |->
                          IF /\ \E t \in Threads : InPersist(t) /\ th[t].id = j
                             /\ gh.last[j] # NoJob
                          THEN disk[j] ELSE gh.last[j]],
              !.ideal = [j \in JobIds |->
                           IF \E t \in Threads : th[t].pc = "return" /\ th[t].id = j
                           THEN LET t == CHOOSE u \in Threads :
                                           th[u].pc = "return" /\ th[u].id = j
                                IN Applied(gh.ideal[j], th[t].op, j, th[t].arg)
                           ELSE gh.ideal[j]]]
  /\ UNCHANGED <<disk, tmp>> /\ StoreFrame

\* ---------------------------------------------------------------- synthesis
\* elevenlabs_tool.py ElevenLabsTool._run and tts_utils.py
\* synthesize_with_elevenlabs_simple.
MaxRequests == 3
MaxChanged == 2

Callers == {"c1", "c2"}

\* DIALOGUE_STABILITY_DEFAULT, ELEVENLABS_MODEL_ID, ELEVENLABS_OUTPUT_FORMAT
DialogueStabilityDefault == 3500
ModelIdDefault == "eleven_multilingual_v2"
OutputFormatDefault == "mp3_44100_128"

\* str(mode).lower() for the spellings used below
LowerMode(mode) == IF mode = "Dialogue" THEN "dialogue" ELSE mode

\* dict with key k set to v
Put(d, k, v) == [x \in DOMAIN d \cup {k} |-> IF x = k THEN v ELSE d[x]]

\* A call of _run: the defaults, and the ways a call differs from it.
BaseCall ==
  [voice_id |-> "V1", text |-> Text(1), settings |-> EmptyDict,
   cache_key |-> NoneVal]

Changes ==
  {"voice_id", "text", "mode", "mode_upper", "stability", "stability_same",
   "dialogue_stability", "dialogue_stability_same", "similarity_boost",
   "similarity_boost_same", "style", "style_same", "speed", "speed_same",
   "model_id", "model_id_same", "output_format", "output_format_same",
   "cache_key", "cache_key_other", "cache_key_empty"}

Change(call, ch) ==
  LET set(k, v) == [call EXCEPT !.settings = Put(@, k, v)]
  IN CASE ch = "voice_id" -> [call EXCEPT !.voice_id = "V2"]
       [] ch = "text" -> [call EXCEPT !.text = Text(2)]
       [] ch = "mode" -> set("mode", "dialogue")
       [] ch = "mode_upper" -> set("mode", "Dialogue")
       [] ch = "stability" -> set("stability", 6000)
       [] ch = "stability_same" -> set("stability", StabilityDefault)
       [] ch = "dialogue_stability" -> set("dialogue_stability", 4000)
       [] ch = "dialogue_stability_same" ->
            set("dialogue_stability", DialogueStabilityDefault)
       [] ch = "similarity_boost" -> set("similarity_boost", 7500)
       [] ch = "similarity_boost_same" ->
            set("similarity_boost", SimilarityDefault)
       [] ch = "style" -> set("style", 1000)
       [] ch = "style_same" -> set("style", StyleDefault)
       [] ch = "speed" -> set("speed", 11000)
       [] ch = "speed_same" -> set("speed", SpeedDefault)
       [] ch = "model_id" -> set("model_id", "eleven_turbo_v2")
       [] ch = "model_id_same" -> set("model_id", ModelIdDefault)
       [] ch = "output_format" -> set("output_format", "pcm_16000")
       [] ch = "output_format_same" -> set("output_format", OutputFormatDefault)
       [] ch = "cache_key" -> [call EXCEPT !.cache_key = "K"]
       [] ch = "cache_key_other" -> [call EXCEPT !.cache_key = "K2"]
       [] OTHER -> [call EXCEPT !.cache_key = ""]

\* the calls that differ from BaseCall by at most n changes
RECURSIVE Varied(_)
Varied(n) ==
  IF n = 0 THEN {BaseCall}
  ELSE Varied(n - 1) \cup {Change(c, ch) : c \in Varied(n - 1), ch \in Changes}

\* lines 43-53: the stability in use
UsedStability(settings) ==
  LET mode == LowerMode(Get(settings, "mode", "narration"))
      stability == Get(settings, "stability", StabilityDefault)
      dialogue_stability ==
        Get(settings, "dialogue_stability", DialogueStabilityDefault)
  IN IF mode = "dialogue" THEN dialogue_stability ELSE stability

\* lines 56-68: cache_base, the text that is hashed: the caller's cache_key
\* if it gave one (and it is not empty), else the JSON of the parameters;
\* and a variant whose JSON leaves the speed out
CacheBaseNoSpeed(call) ==
  IF call.cache_key \notin {NoneVal, ""}
  THEN [raw |-> call.cache_key]
  ELSE [json |->
          [voice_id |-> call.voice_id, text |-> call.text,
           stability |-> UsedStability(call.settings),
           similarity_boost |->
             Get(call.settings, "similarity_boost", SimilarityDefault),
           style |-> Get(call.settings, "style", StyleDefault),
           model_id |-> Get(call.settings, "model_id", ModelIdDefault),
           format |-> Get(call.settings, "output_format", OutputFormatDefault)]]

CacheBase(call) ==
  IF call.cache_key \notin {NoneVal, ""}
  THEN [raw |-> call.cache_key]
  ELSE [json |->
          [voice_id |-> call.voice_id, text |-> call.text,
           stability |-> UsedStability(call.settings),
           similarity_boost |->
             Get(call.settings, "similarity_boost", SimilarityDefault),
           style |-> Get(call.settings, "style", StyleDefault),
           speed |-> Get(call.settings, "speed", SpeedDefault),
           model_id |-> Get(call.settings, "model_id", ModelIdDefault),
           format |-> Get(call.settings, "output_format", OutputFormatDefault)]]

\* line 69: the SHA-256 digest, taken to be free of collisions
Sha256(base) == [sha256 |-> base]

CacheHash(call) == Sha256(CacheBase(call))

\* line 73
Ext(output_format) ==
  IF output_format = "mp3_44100_128" THEN ".mp3" ELSE ".wav"

\* line 74 and line 145
OutputPath(call) ==
  [dir |-> "cache", hash |-> CacheHash(call),
   ext |-> Ext(Get(call.settings, "output_format", OutputFormatDefault))]

FallbackPath(call) == [OutputPath(call) EXCEPT !.dir = "/tmp"]

\* The requests the callers make: the same call, and one with another text.
TtsInputs == {BaseCall, Change(BaseCall, "text")}
TtsKeys == {CacheHash(c) : c \in TtsInputs}
TtsPaths == {OutputPath(c) : c \in TtsInputs} \cup {FallbackPath(c) : c \in TtsInputs}

\* a caller outside any request; ret is what its last request returned
\* and content what the file it names held at that moment, miss whether
\* the request found nothing in the cache, audio whether a provider call of
\* the request yielded audio, ncalls the provider calls it made, second
\* whether an equal request had succeeded before it began
ClIdle ==
  [pc |-> "idle", kind |-> NoneVal, call |-> BaseCall, audio_bytes |-> NoneVal,
   miss |-> FALSE, audio |-> FALSE, ncalls |-> 0, second |-> FALSE,
   ret |-> NoRet, content |-> Absent]

\* nreq: requests begun; called, yielded: per key the provider calls made
\* and those that returned audio; first: per key and kind of request what
\* the first request that succeeded returned
ProviderInit ==
  [nreq |-> 0, called |-> [k \in TtsKeys |-> 0],
   yielded |-> [k \in TtsKeys |-> 0],
   first |-> [k \in TtsKeys |-> [tool |-> NoneDict, simple |-> NoneDict]]]

\* what a request returns besides a handle
RaisedRet == [raised |-> "RuntimeError"]

TtsFrame ==
  UNCHANGED <<jobs, disk, pc, loc, hist, calls, pg, qc, tmp, lock, th, gh, ck, sc,
              su, sp, ts, mark>>

\* the provider is called for the request of caller c and answers
Called(c, yields) ==
  LET key == CacheHash(cl[c].call)
  IN [elevenlabs EXCEPT !.called[key] = @ + 1,
                      !.yielded[key] = IF yields THEN @ + 1 ELSE @]

\* the request of caller c returns ret; a handle to audio is remembered as
\* the key's first success if it is the first
Return(c, prov, ret, success) ==
  LET key == CacheHash(cl[c].call)
  IN /\ cl' = [cl EXCEPT ![c].pc = "idle", ![c].ret = ret,
                         ![c].content = cache'[ret.path],
                         ![c].ncalls = @ + prov.called[key] - elevenlabs.called[key]]
     /\ elevenlabs' = IF success /\ prov.first[key].tool = NoneDict
                    THEN [prov EXCEPT !.first[key].tool = ret]
                    ELSE prov

\* _run lines 38-76: the API key, the cache key and the look-up
ToolBegin(c) ==
  /\ cl[c].pc = "idle"
  /\ elevenlabs.nreq < MaxRequests
  /\ \E call \in TtsInputs, api_key \in BOOLEAN :
       LET output_path == OutputPath(call)
           begun == [ClIdle EXCEPT
                       !.kind = "tool", !.call = call,
                       !.second = elevenlabs.first[CacheHash(call)].tool # NoneDict]
       IN /\ cl' = [cl EXCEPT ![c] =
                      IF ~api_key THEN [begun EXCEPT !.ret = RaisedRet]
                      ELSE IF cache[output_path] \in {"part", "audio"}
                      THEN [begun EXCEPT !.ret = [path |-> output_path],
                                         !.content = cache[output_path]]
                      ELSE [begun EXCEPT !.pc = "convert", !.miss = TRUE]]
          /\ elevenlabs' = [elevenlabs EXCEPT !.nreq = @ + 1]
  /\ UNCHANGED cache /\ TtsFrame

\* lines 78-119: the client is missing, or convert raises, returns nothing
\* or returns audio (the text is short: one segment)
ToolConvert(c) ==
  /\ cl[c].pc = "convert"
  /\ \E outcome \in {"no_client", "raises", "empty", "audio"} :
       /\ cl' = [cl EXCEPT
                   ![c].pc = IF outcome = "audio" THEN "open" ELSE "legacy",
                   ![c].audio_bytes = IF outcome = "audio" THEN "audio" ELSE NoneVal,
                   ![c].audio = outcome = "audio",
                   ![c].ncalls = IF outcome = "no_client" THEN @ ELSE @ + 1]
       /\ elevenlabs' = IF outcome = "no_client" THEN elevenlabs
                      ELSE Called(c, outcome = "audio")
  /\ UNCHANGED cache /\ TtsFrame

\* lines 121-137: the legacy generate API is missing, raises, or returns
\* bytes; without it the path is returned although no file was written
ToolLegacy(c) ==
  /\ cl[c].pc = "legacy"
  /\ \E outcome \in {"unavailable", "raises", "empty", "audio"} :
       LET prov == IF outcome = "unavailable" THEN elevenlabs
                   ELSE Called(c, outcome = "audio")
       IN /\ UNCHANGED cache
          /\ IF outcome \in {"unavailable", "raises"}
             THEN Return(c, prov, [path |-> OutputPath(cl[c].call)], FALSE)
             ELSE /\ cl' = [cl EXCEPT
                              ![c].pc = "open",
                              ![c].audio_bytes = outcome,
                              ![c].audio = outcome = "audio",
                              ![c].ncalls = @ + 1]
                  /\ elevenlabs' = prov
  /\ TtsFrame

\* lines 140-152: open(output_path, "wb") creates or truncates the file;
\* if that fails the bytes go to /tmp, and if that fails too the path is
\* returned all the same
ToolOpen(c) ==
  /\ cl[c].pc = "open"
  /\ \E outcome \in {"opened", "fallback", "give_up"} :
       CASE outcome = "opened" ->
              /\ cache' = [cache EXCEPT ![OutputPath(cl[c].call)] = "empty"]
              /\ cl' = [cl EXCEPT ![c].pc = "write"]
              /\ UNCHANGED elevenlabs
         [] outcome = "fallback" ->
              /\ cache' = [cache EXCEPT
                             ![FallbackPath(cl[c].call)] = cl[c].audio_bytes]
              /\ Return(c, elevenlabs, [path |-> FallbackPath(cl[c].call)],
                        cl[c].audio_bytes = "audio")
         [] OTHER ->
              /\ UNCHANGED cache
              /\ Return(c, elevenlabs, [path |-> OutputPath(cl[c].call)], FALSE)
  /\ TtsFrame

\* line 142: the bytes are being written (the file is not complete yet)
ToolWrite(c) ==
  /\ cl[c].pc = "write"
  /\ cache' = [cache EXCEPT ![OutputPath(cl[c].call)] =
                 IF cl[c].audio_bytes = "audio" THEN "part" ELSE "empty"]
  /\ cl' = [cl EXCEPT ![c].pc = "close"]
  /\ UNCHANGED elevenlabs /\ TtsFrame

\* lines 141-154: the with block ends and the path is returned
ToolClose(c) ==
  /\ cl[c].pc = "close"
  /\ cache' = [cache EXCEPT ![OutputPath(cl[c].call)] = cl[c].audio_bytes]
  /\ Return(c, elevenlabs, [path |-> OutputPath(cl[c].call)],
            cl[c].audio_bytes = "audio")
  /\ TtsFrame

\* tts_utils.py synthesize_with_elevenlabs_simple lines 20-56, as line 109
\* of run_clone_job calls it: no client, or convert raises or returns
\* nothing (all None), or the audio as base64; no cache is read or written
SimpleCall(c) ==
  /\ cl[c].pc = "idle"
  /\ elevenlabs.nreq < MaxRequests
  /\ \E call \in TtsInputs, outcome \in {"no_client", "raises", "empty", "audio"} :
       LET key == CacheHash(call)
           ret == IF outcome = "audio" THEN [audio_base64 |-> "audio"]
                  ELSE NoneDict
           prov == [elevenlabs EXCEPT
                      !.nreq = @ + 1,
                      !.called[key] = IF outcome = "no_client" THEN @ ELSE @ + 1,
                      !.yielded[key] = IF outcome = "audio" THEN @ + 1 ELSE @]
       IN /\ cl' = [cl EXCEPT ![c] =
                      [ClIdle EXCEPT
                         !.kind = "simple", !.call = call, !.miss = TRUE,
                         !.audio = outcome = "audio",
                         !.ncalls = IF outcome = "no_client" THEN 0 ELSE 1,
                         !.second = elevenlabs.first[key].simple # NoneDict,
                         !.ret = ret]]
          /\ elevenlabs' = IF outcome = "audio" /\ prov.first[key].simple = NoneDict
                         THEN [prov EXCEPT !.first[key].simple = ret]
                         ELSE prov
  /\ UNCHANGED cache /\ TtsFrame

\* cache-key harness: CacheHash applied to the two calls drawn
CkIdle == [a |-> BaseCall, b |-> BaseCall, ka |-> NoneDict, kb |-> NoneDict,
           ran |-> FALSE]

EvaluateKeys ==
  /\ ~ck.ran
  /\ ck' = [ck EXCEPT !.ka = CacheHash(ck.a), !.kb = CacheHash(ck.b),
                      !.ran = TRUE]
  /\ UNCHANGED <<jobs, disk, pc, loc, hist, calls, pg, qc, tmp, lock, th, gh>>
  /\ UNCHANGED <<cache, elevenlabs, cl, sc, su, sp, ts, mark>>

\* tts_utils.py lines 26-42: the voice settings
\* synthesize_with_elevenlabs_simple sends with its request, None when the
\* VoiceSettings class cannot be imported
SimpleVoiceSettings(mode, has_voice_settings) ==
  IF has_voice_settings
  THEN [stability |-> IF mode = "dialogue" THEN DialogueStabilityDefault
                      ELSE StabilityDefault,
        similarity_boost |-> SimilarityDefault,
        style |-> StyleDefault, use_speaker_boost |-> TRUE]
  ELSE NoneDict

\* main.py DefaultsModel as start_clone dumps it into the payload, for the
\* values a request may give its fields
DefaultsModels ==
  { [stability |-> s, dialogue_stability |-> d, similarity_boost |-> b,
     style |-> y, speed |-> v] :
      s \in {StabilityDefault, 6000}, d \in {DialogueStabilityDefault, 4000},
      b \in {SimilarityDefault, 7500}, y \in {StyleDefault, 1000},
      v \in {SpeedDefault, 11000} }

\* the payloads of start_clone, and those of a caller of create_job that
\* gives no defaults
SuPayloads ==
  { [BasePayload EXCEPT !.mode = m, !.defaults = d] :
      m \in {"narration", "dialogue"}, d \in DefaultsModels \cup {EmptyDict} }

SuIdle ==
  [payload |-> EmptyFcn, has_voice_settings |-> TRUE, sent |-> NoneDict,
   settings_used |-> NoneDict, ran |-> FALSE]

\* run_clone_job lines 106-109 and 166-172 for the payload drawn: what the
\* provider is sent and what the result records
EvaluateSettings ==
  /\ ~su.ran
  /\ su' = [su EXCEPT
              !.sent = SimpleVoiceSettings(Get(su.payload, "mode", "narration"),
                                           su.has_voice_settings),
              !.settings_used = SettingsUsed(su.payload),
              !.ran = TRUE]
  /\ UNCHANGED <<jobs, disk, pc, loc, hist, calls, pg, qc, tmp, lock, th, gh>>
  /\ UNCHANGED <<cache, elevenlabs, cl, ck, sc, sp, ts, mark>>

\* ----------------------------------------------------------------- splitter
\* elevenlabs_tool.py ElevenLabsTool._split_text and the texts the three
\* synthesis paths hand to the provider. A text is a sequence of characters.
MaxTextLen == 5
MaxChars == 3

\* line 103: max_chars of the tool's own call of _split_text
ToolMaxChars == 1000

\* the characters of the texts drawn: a letter, a sentence terminator and
\* two kinds of whitespace
Alphabet == {"a", ".", " ", "\n"}
Whitespace == {" ", "\n"}
Terminators == {".", "!", "?"}

\* str.strip()
StripChars(s) ==
  LET inked == {i \in 1..Len(s) : s[i] \notin Whitespace}
  IN IF inked = {} THEN <<>>
     ELSE SubSeq(s, CHOOSE i \in inked : \A k \in inked : i <= k,
                    CHOOSE i \in inked : \A k \in inked : k <= i)

\* line 167, the pattern (?<=[\.\!\?])\s+|\n+ : character i of the text is
\* part of a match iff it is whitespace and either it is a newline or the
\* whitespace run it lies in follows a sentence terminator
IsSep(text, i) ==
  /\ text[i] \in Whitespace
  /\ \/ text[i] = "\n"
     \/ LET begins == {k \in 1..i : k = 1 \/ text[k - 1] \notin Whitespace}
            k == CHOOSE b \in begins : \A c \in begins : c <= b
        IN k > 1 /\ text[k - 1] \in Terminators

\* the parts from the start positions given on, in order
RECURSIVE PartsFrom(_, _)
PartsFrom(text, starts) ==
  IF starts = {} THEN <<>>
  ELSE LET s == CHOOSE a \in starts : \A b \in starts : a <= b
           ends == {e \in s..Len(text) : e = Len(text) \/ IsSep(text, e + 1)}
           e == CHOOSE a \in ends : \A b \in ends : a <= b
       IN <<SubSeq(text, s, e)>> \o PartsFrom(text, starts \ {s})

\* lines 167 and 171-172: re.split, without the empty parts that the loop
\* skips: the maximal runs of characters outside every match
RegexSplit(text) ==
  PartsFrom(text, {i \in 1..Len(text) :
                     ~IsSep(text, i) /\ (i = 1 \/ IsSep(text, i - 1))})

\* lines 170-182: the parts are packed into segments
RECURSIVE Pack(_, _, _, _)
Pack(parts, cur, segments, max_chars) ==
  IF parts = <<>>
  THEN IF cur # <<>> THEN Append(segments, cur) ELSE segments
  ELSE LET p == Head(parts)
       IN IF cur = <<>>
          THEN Pack(Tail(parts), StripChars(p), segments, max_chars)
          ELSE IF Len(cur) + 1 + Len(p) <= max_chars
          THEN Pack(Tail(parts), cur \o <<" ">> \o StripChars(p), segments,
                    max_chars)
          ELSE Pack(Tail(parts), StripChars(p), Append(segments, cur),
                    max_chars)

\* lines 186-190 for one segment; and a variant that leaves a segment that
\* is too long as it is
NoHardChunk(s, max_chars) == IF s # <<>> THEN <<s>> ELSE <<>>

RECURSIVE HardChunk(_, _)
HardChunk(s, max_chars) ==
  IF Len(s) > max_chars
  THEN <<SubSeq(s, 1, max_chars)>>
       \o HardChunk(SubSeq(s, max_chars + 1, Len(s)), max_chars)
  ELSE IF s # <<>> THEN <<s>> ELSE <<>>

\* lines 184-191
RECURSIVE HardChunks(_, _)
HardChunks(segments, max_chars) ==
  IF segments = <<>> THEN <<>>
  ELSE HardChunk(Head(segments), max_chars)
       \o HardChunks(Tail(segments), max_chars)

\* lines 163-191
_split_text(text, max_chars) ==
  IF Len(text) <= max_chars THEN <<text>>
  ELSE HardChunks(Pack(RegexSplit(text), <<>>, <<>>, max_chars), max_chars)

\* _run lines 103-115: the texts of the convert calls, one per segment that
\* is not blank
RECURSIVE Stripped(_)
Stripped(segments) ==
  IF segments = <<>> THEN <<>>
  ELSE (IF StripChars(Head(segments)) = <<>> THEN <<>>
        ELSE <<StripChars(Head(segments))>>)
       \o Stripped(Tail(segments))

ConvertTexts(text) == Stripped(_split_text(text, ToolMaxChars))

\* The texts drawn: every short text over the alphabet, and long ones of a
\* length around the tool's max_chars.
ShortTexts(n) == UNION {[1..k -> Alphabet] : k \in 0..n}

LongTexts ==
  { Text(a) \o mid \o Text(b) :
      a \in {ToolMaxChars - 1, ToolMaxChars},
      mid \in {<<>>, <<".", " ">>, <<"\n">>, <<" ">>},
      b \in {0, 1, ToolMaxChars + 1} }

\* limits of a payload: none given, and a maximum that admits the long texts
SpLimits == {EmptyDict, [max_text_length |-> 5000]}

\* path: the code that ran; segments: what _split_text returned; sent: the
\* texts handed to the provider, in order
SpIdle ==
  [text |-> <<>>, path |-> NoneVal, max_chars |-> 0, segments |-> <<>>,
   sent |-> <<>>, ran |-> FALSE]

SpFrame ==
  /\ UNCHANGED <<jobs, disk, pc, loc, hist, calls, pg, qc, tmp, lock, th, gh>>
  /\ UNCHANGED <<cache, elevenlabs, cl, ck, sc, su, ts, mark>>

\* _split_text on the text drawn (long texts with the tool's max_chars only)
SplitCall ==
  /\ ~sp.ran
  /\ \E max_chars \in 1..MaxChars \cup {ToolMaxChars} :
       /\ Len(sp.text) <= MaxTextLen \/ max_chars = ToolMaxChars
       /\ sp' = [sp EXCEPT !.path = "split", !.max_chars = max_chars,
                           !.segments = _split_text(sp.text, max_chars),
                           !.ran = TRUE]
  /\ SpFrame

\* ElevenLabsTool._run lines 78-137 on the text drawn: the client's convert
\* calls if the client can be imported, then the legacy generate call if
\* no audio came of them and generate can be imported
ToolRun ==
  /\ ~sp.ran
  /\ \E client \in BOOLEAN, audio_bytes \in BOOLEAN, generate \in BOOLEAN :
       /\ audio_bytes => client
       /\ sp' = [sp EXCEPT
                   !.path = IF audio_bytes THEN "chunked"
                            ELSE IF generate THEN "legacy" ELSE "stub",
                   !.max_chars = ToolMaxChars,
                   !.segments = IF client
                                THEN _split_text(sp.text, ToolMaxChars)
                                ELSE <<>>,
                   !.sent = (IF client THEN ConvertTexts(sp.text) ELSE <<>>)
                            \o (IF ~audio_bytes /\ generate THEN <<sp.text>>
                                ELSE <<>>),
                   !.ran = TRUE]
  /\ SpFrame

\* run_clone_job lines 43-46 and 106-109 with tts_utils.py lines 44-50 for a
\* payload with the text drawn: the guard, then the one convert call
PipelineCall ==
  /\ ~sp.ran
  /\ \E limits \in SpLimits :
       LET payload == [BasePayload EXCEPT !.text = sp.text, !.limits = limits]
       IN sp' = [sp EXCEPT
                   !.path = "pipeline",
                   !.max_chars = Get(limits, "max_text_length",
                                     DefaultMaxTextLength),
                   !.sent = IF _policy_guard(payload) = NoneVal
                            THEN <<Get(payload, "text", <<>>)>> ELSE <<>>,
                   !.ran = TRUE]
  /\ SpFrame

\* --------------------------------------------------------------- task store
\* voice_service/main.py: store_task_status, get_task_status, delete_task
\* over Redis and the task_storage dict, within the hour an entry lives in
\* Redis.
MaxTaskOps == 4

TaskIds == {"k1", "k2"}
TaskStatuses == {"pending", "processing", "completed"}

\* status.model_dump_json() and VoiceSynthesisStatus.model_validate_json
ModelDumpJson(status) == [json |-> status]
ModelValidateJson(data) == data.json

\* redis_client: whether the client was connected at import (lines 35-41);
\* redis: task id -> the JSON stored (NoneDict: no such key);
\* task_storage: task id -> the status stored (Absent: no such key);
\* last: per task id the status most recently passed to store_task_status,
\* Absent before the first and after a delete_task (read by no step);
\* op, id, ret: the last call, its task id and what it returned
TsIdle ==
  [redis_client |-> FALSE, redis |-> [k \in TaskIds |-> NoneDict],
   task_storage |-> [k \in TaskIds |-> Absent],
   last |-> [k \in TaskIds |-> Absent],
   op |-> NoneVal, id |-> NoneVal, ret |-> NoneVal, failed |-> FALSE, nops |-> 0]

TsInit == TsIdle

TsFrame ==
  /\ UNCHANGED <<jobs, disk, pc, loc, hist, calls, pg, qc, tmp, lock, th, gh>>
  /\ UNCHANGED <<cache, elevenlabs, cl, ck, sc, su, sp, mark>>

\* lines 85-97 in the store given: a read of Redis that raises is passed
\* over, and so is a key that Redis does not hold
get_task_status(store, task_id, raises) ==
  IF store.redis_client /\ ~raises /\ store.redis[task_id] # NoneDict
  THEN ModelValidateJson(store.redis[task_id])
  ELSE IF store.task_storage[task_id] # Absent
  THEN store.task_storage[task_id]
  ELSE NoneVal

\* lines 75-83: setex, and task_storage if there is no client or setex raises
StoreTaskStatus ==
  /\ ts.nops < MaxTaskOps
  /\ \E task_id \in TaskIds, status \in TaskStatuses, raises \in BOOLEAN :
       /\ raises => ts.redis_client
       /\ ts' = [ts EXCEPT
                   !.redis[task_id] =
                     IF ts.redis_client /\ ~raises THEN ModelDumpJson(status)
                     ELSE @,
                   !.task_storage[task_id] =
                     IF ts.redis_client /\ ~raises THEN @ ELSE status,
                   !.last[task_id] = status,
                   !.op = "store", !.id = task_id, !.ret = NoneVal,
                   !.failed = raises, !.nops = @ + 1]
  /\ TsFrame

\* lines 85-97
GetTaskStatus ==
  /\ ts.nops < MaxTaskOps
  /\ \E task_id \in TaskIds, raises \in BOOLEAN :
       /\ raises => ts.redis_client
       /\ ts' = [ts EXCEPT
                   !.op = "get", !.id = task_id,
                   !.ret = get_task_status(ts, task_id, raises),
                   !.failed = raises, !.nops = @ + 1]
  /\ TsFrame

\* lines 300-321: 404 if get_task_status finds nothing, else the key is
\* deleted from Redis (an exception is passed over) and from task_storage
DeleteTask ==
  /\ ts.nops < MaxTaskOps
  /\ \E task_id \in TaskIds, get_raises \in BOOLEAN, delete_raises \in BOOLEAN :
       /\ (get_raises \/ delete_raises) => ts.redis_client
       /\ LET status == get_task_status(ts, task_id, get_raises)
          IN IF status = NoneVal
             THEN /\ ~delete_raises
                  /\ ts' = [ts EXCEPT
                              !.op = "delete", !.id = task_id,
                              !.ret = "404", !.failed = get_raises,
                              !.nops = @ + 1]
             ELSE ts' = [ts EXCEPT
                           !.redis[task_id] =
                             IF ts.redis_client /\ ~delete_raises THEN NoneDict
                             ELSE @,
                           !.task_storage[task_id] = Absent,
                           !.last[task_id] = Absent,
                           !.op = "delete", !.id = task_id, !.ret = "deleted",
                           !.failed = get_raises \/ delete_raises,
                           !.nops = @ + 1]
  /\ TsFrame

\* ------------------------------------------------------------------ harness
PgIdle == [payload |-> EmptyFcn, verdict |-> NotRun, ran |-> FALSE]
QcIdle == [input |-> EmptyFcn, output |-> NoneDict, ran |-> FALSE]

\* _policy_guard applied to the payload drawn
EvaluateGuard ==
  /\ ~pg.ran
  /\ pg' = [pg EXCEPT !.verdict = _policy_guard(pg.payload), !.ran = TRUE]
  /\ UNCHANGED <<jobs, disk, pc, loc, hist, calls, qc, tmp, lock, th, gh>>
  /\ UNCHANGED <<cache, elevenlabs, cl, ck, sc, su, sp, ts, mark>>

\* QualityControlTool._run applied to the inputs drawn
EvaluateQc ==
  /\ ~qc.ran
  /\ qc' = [qc EXCEPT
              !.output = QcRun(qc.input.deps, qc.input.wer, qc.input.cosine_sim,
                               qc.input.gen_wav_path, qc.input.current_settings,
                               qc.input.is_retry),
              !.ran = TRUE]
  /\ UNCHANGED <<jobs, disk, pc, loc, hist, calls, pg, tmp, lock, th, gh>>
  /\ UNCHANGED <<cache, elevenlabs, cl, ck, sc, su, sp, ts, mark>>

ScIdle ==
  [input |-> EmptyFcn, scored |-> NoneDict, cosine_sim |-> NoneVal,
   output |-> NoneDict, ran |-> FALSE]

\* QualityControlTool._run applied to the evaluation drawn; the two scores
\* it computed on the way are kept beside its answer
EvaluateScore ==
  /\ ~sc.ran
  /\ sc' = [sc EXCEPT
              !.scored = IF sc.input.env.deps
                         THEN _calculate_wer(sc.input.env, sc.input.text)
                         ELSE NoneDict,
              !.cosine_sim = IF sc.input.env.deps
                             THEN _calculate_similarity(sc.input.env)
                             ELSE NoneVal,
              !.output = _run(sc.input.env, sc.input.text,
                              sc.input.gen_wav_path,
                              sc.input.current_settings, sc.input.is_retry),
              !.ran = TRUE]
  /\ UNCHANGED <<jobs, disk, pc, loc, hist, calls, pg, qc, tmp, lock, th, gh>>
  /\ UNCHANGED <<cache, elevenlabs, cl, ck, su, sp, ts, mark>>

\* ----------------------------------------------------------- specifications
InitStore ==
  /\ jobs = [j \in JobIds |-> NoJob]
  /\ disk = [j \in JobIds |-> NoJob]
  /\ pc = [j \in JobIds |-> "idle"]
  /\ loc = [j \in JobIds |-> InitLoc]
  /\ hist = [j \in JobIds |-> <<>>]
  /\ calls = [j \in JobIds |-> [pre |-> 0, tts |-> 0, qc |-> 0]]
  /\ tmp = [j \in JobIds |-> NoJob]
  /\ lock = NoneVal
  /\ th = [t \in Threads |-> ThIdle]
  /\ gh = GhInit
  /\ cache = [p \in TtsPaths |-> Absent]
  /\ elevenlabs = ProviderInit
  /\ cl = [c \in Callers |-> ClIdle]
  /\ mark = [j \in JobIds |-> 0]

\* the harnesses and the task store that a specification does not use
InitRest == su = SuIdle /\ sp = SpIdle /\ ts = TsInit

Init ==
  /\ InitStore /\ pg = PgIdle /\ qc = QcIdle /\ ck = CkIdle /\ sc = ScIdle
  /\ InitRest

\* The steps of a job up to the QC call, and after it.
Pipeline(j) ==
  \/ CreateJob(j) \/ StartJob(j) \/ SetValidating(j) \/ PolicyEvent(j)
  \/ Guard(j) \/ CrewInit(j) \/ CrewKickoff(j) \/ SetIngesting(j)
  \/ IngestEvent(j) \/ Preprocess(j) \/ SetSynthesizing(j) \/ Synthesize(j)
  \/ PrepareAudio(j) \/ SetVerifying(j)

Run(j) == Pipeline(j) \/ VerifyEngine(j) \/ Decide(j) \/ Assemble(j)

Next == \E j \in JobIds : Run(j)

\* run_clone_job against a QC engine that answers the orchestrator's call.
\* Raising is one of that engine's answers, so every behaviour of SpecTool
\* below is a behaviour of Spec.
Spec == Init /\ [][Next]_vars

RunTool(j) == Pipeline(j) \/ VerifyTool(j)

NextTool == \E j \in JobIds : RunTool(j)

\* run_clone_job against the repository's QualityControlTool: the call at
\* lines 146-152 does not bind, so lines 157-183 (Decide, Assemble) are
\* never run and are no steps of this specification
SpecTool == Init /\ [][NextTool]_vars

InitGuard ==
  /\ InitStore /\ qc = QcIdle /\ ck = CkIdle /\ sc = ScIdle /\ InitRest
  /\ pg \in {[payload |-> p, verdict |-> NotRun, ran |-> FALSE] : p \in GuardPayloads}

NextFault == \E j \in JobIds : Run(j) \/ Fault(j) \/ PersistFault(j) \/ Handle(j)

\* run_clone_job (QC engine as in Spec) where one exception may be raised
\* at any line of a stage
SpecFault == Init /\ [][NextFault]_vars

StoreStep(t) ==
  \/ CreateEnter(t) \/ UpdateEnter(t) \/ AddEventEnter(t)
  \/ PersistOpen(t) \/ PersistDump(t) \/ PersistReplace(t)
  \/ MutationReturn(t)
  \/ GetIndex(t) \/ GetRead(t) \/ GetInstall(t)

NextStore == (\E t \in Threads : StoreStep(t)) \/ Crash

\* the job store under concurrent callers and process restarts
SpecStore == Init /\ [][NextStore]_vars

TtsStep(c) ==
  \/ ToolBegin(c) \/ ToolConvert(c) \/ ToolLegacy(c) \/ ToolOpen(c)
  \/ ToolWrite(c) \/ ToolClose(c) \/ SimpleCall(c)

NextTts == \E c \in Callers : TtsStep(c)

\* synthesis requests of concurrent callers, through ElevenLabsTool and
\* through synthesize_with_elevenlabs_simple
SpecTts == Init /\ [][NextTts]_vars

InitKeys ==
  /\ InitStore /\ pg = PgIdle /\ qc = QcIdle /\ sc = ScIdle /\ InitRest
  /\ ck \in {[CkIdle EXCEPT !.a = a, !.b = b] :
               a \in Varied(1), b \in Varied(MaxChanged)}

\* the cache key of ElevenLabsTool._run on its own
SpecKey == InitKeys /\ [][EvaluateKeys]_vars

\* _policy_guard on its own
SpecGuard == InitGuard /\ [][EvaluateGuard]_vars

InitQc ==
  /\ InitStore /\ pg = PgIdle /\ ck = CkIdle /\ sc = ScIdle /\ InitRest
  /\ qc \in {[input |-> i, output |-> NoneDict, ran |-> FALSE] : i \in QcInputs}

\* QualityControlTool._run on its own
SpecQC == InitQc /\ [][EvaluateQc]_vars

InitScore ==
  /\ InitStore /\ pg = PgIdle /\ qc = QcIdle /\ ck = CkIdle /\ InitRest
  /\ sc \in {[ScIdle EXCEPT !.input = i] : i \in ScInputs(MaxWords)}

\* QualityControlTool._run with its scoring, on its own
SpecScore == InitScore /\ [][EvaluateScore]_vars

InitSettings ==
  /\ InitStore /\ pg = PgIdle /\ qc = QcIdle /\ ck = CkIdle /\ sc = ScIdle
  /\ sp = SpIdle /\ ts = TsInit
  /\ su \in {[SuIdle EXCEPT !.payload = p, !.has_voice_settings = h] :
               p \in SuPayloads, h \in BOOLEAN}

\* the settings run_clone_job sends and records, on their own
SpecSettings == InitSettings /\ [][EvaluateSettings]_vars

InitSplit ==
  /\ InitStore /\ pg = PgIdle /\ qc = QcIdle /\ ck = CkIdle /\ sc = ScIdle
  /\ su = SuIdle /\ ts = TsInit
  /\ sp \in {[SpIdle EXCEPT !.text = t] :
               t \in ShortTexts(MaxTextLen) \cup LongTexts}

NextSplit == SplitCall \/ ToolRun \/ PipelineCall

\* _split_text and the texts each synthesis path sends, on their own
SpecSplit == InitSplit /\ [][NextSplit]_vars

InitTasks ==
  /\ InitStore /\ pg = PgIdle /\ qc = QcIdle /\ ck = CkIdle /\ sc = ScIdle
  /\ su = SuIdle /\ sp = SpIdle
  /\ ts \in {[TsIdle EXCEPT !.redis_client = r] : r \in BOOLEAN}

NextTasks == StoreTaskStatus \/ GetTaskStatus \/ DeleteTask

\* the voice service's task store, with and without a Redis client
SpecTasks == InitTasks /\ [][NextTasks]_vars

\* The process is killed and started again while jobs run: the index and
\* the daemon threads of orchestrator.py lines 189-191 are gone with their
\* locals, the files stay (a run that had returned stays returned, every
\* other one is gone). main.py starts no run at startup (lines 94-95).
Restart ==
  /\ gh.crashes < MaxCrashes
  /\ \E j \in JobIds : pc[j] # "idle"
  /\ jobs' = [j \in JobIds |-> NoJob]
  /\ pc' = [j \in JobIds |->
              IF pc[j] \in {"idle", "done"} THEN pc[j] ELSE "gone"]
  /\ loc' = [j \in JobIds |-> InitLoc]
  /\ gh' = [gh EXCEPT !.crashes = @ + 1]
  /\ Observe
  /\ UNCHANGED <<disk, calls, pg, qc, tmp, lock, th>>
  /\ UNCHANGED <<cache, elevenlabs, cl, ck, sc, su, sp, ts>>

\* main.py get_job lines 427-428, jobs.py get_job lines 46-62, for a job
\* that is on disk and not in the index: the file is read into the index
GetJob(j) ==
  /\ jobs[j] = NoJob /\ disk[j] # NoJob
  /\ jobs' = [jobs EXCEPT ![j] = disk[j]]
  /\ Observe
  /\ UNCHANGED <<disk, pc, loc, calls>> /\ Idle

NextRestart == (\E j \in JobIds : Run(j) \/ GetJob(j)) \/ Restart

\* run_clone_job (QC engine as in Spec) with a restart of the process and
\* the status requests that follow it
SpecRestart == Init /\ [][NextRestart]_vars

\* ------------------------------------------------------------------- claims
Statuses ==
  {"queued", "validating", "ingesting", "synthesizing", "verifying",
   "completed", "failed"}

Started(j) == pc[j] \notin {"idle", "created"}

Returned(j) == pc[j] = "done"

\* How far a job's thread is in run_clone_job: the order of the lines.
PcRank(label) ==
  CASE label = "idle" -> 0 [] label = "created" -> 1 [] label = "L36" -> 2
    [] label = "L37" -> 3 [] label = "L38" -> 4 [] label = "L50" -> 5
    [] label = "L74" -> 6 [] label = "L81" -> 7 [] label = "L82" -> 8
    [] label = "L84" -> 9 [] label = "L105" -> 10 [] label = "L109" -> 11
    [] label = "L116" -> 12 [] label = "L131" -> 13 [] label = "L132" -> 14
    [] label = "L158" -> 15 [] label = "L166" -> 16 [] OTHER -> 17

\* C1: every job on which run_clone_job is started reaches completed or
\* failed after a bounded number of status changes, whatever the
\* collaborators return or raise: until it returns the run always has a next
\* step, every step moves it forward in the code (it never loops), a job's
\* record changes only by a step of its run, the status has changed at most
\* once per status there is, and when the run has returned the status is
\* completed or failed.
C1_RunTerminates ==
  /\ [](\A j \in JobIds :
          /\ (Started(j) /\ ~Returned(j)) => ENABLED Run(j)
          /\ Returned(j) => jobs[j].status \in Terminal
          /\ Len(hist[j]) <= Cardinality(Statuses))
  /\ [][\A j \in JobIds :
          /\ pc'[j] # pc[j] => PcRank(pc'[j]) > PcRank(pc[j])
          /\ jobs'[j] # jobs[j] => pc'[j] # pc[j]]_vars

\* a run that went through every stage, the QC call included, and returned
C1_Witness ==
  \E j \in JobIds :
    /\ Returned(j) /\ calls[j].qc = 1 /\ calls[j].tts = 1 /\ calls[j].pre = 1
    /\ jobs[j].status \in Terminal

\* C2: once a job's status is completed or failed, no later store operation
\* changes its status, error, result or event log.
C2_TerminalIsFinal ==
  [][\A j \in JobIds :
       (jobs[j] # NoJob /\ jobs[j].status \in Terminal) => jobs'[j] = jobs[j]]_vars

\* C3: a job whose final QC decision is not pass ends failed, with the last
\* metrics and a reason; a job ends completed only if the decision was pass.
C3_FailedUnlessPass ==
  \A j \in JobIds :
    (Returned(j) /\ loc[j].final_decision # NoneVal) =>
      /\ loc[j].final_decision # "pass" =>
           /\ jobs[j].status = "failed"
           /\ Get(jobs[j].result, "metrics", NoneDict)
                = Get(loc[j].qc_result, "metrics", NoneDict)
           /\ Get(jobs[j].result, "reason", <<>>) # <<>>
      /\ jobs[j].status = "completed" => loc[j].final_decision = "pass"

\* the gates a job's payload configures are met by its generated audio
MeetsGates(j) ==
  LET qc_config == Get(jobs[j].payload, "qc", EmptyDict)
  IN /\ loc[j].audio # NoneDict
     /\ loc[j].audio.wer <= Get(qc_config, "max_wer", CloneMaxWer)
     /\ loc[j].audio.cosine_sim >= Get(qc_config, "min_cosine", CloneMinCosine)

\* C4: a job that passed the guard, preprocessing and TTS, whose audio meets
\* the gates of its payload and for which the QC engine was called, ends
\* completed with result decision pass.
C4_GoodAudioCompletes ==
  \A j \in JobIds :
    (Returned(j) /\ calls[j].qc = 1 /\ MeetsGates(j)) =>
      /\ jobs[j].status = "completed"
      /\ Get(jobs[j].result, "decision", NoneVal) = "pass"

Rank(status) ==
  CASE status = "queued" -> 1
    [] status = "validating" -> 2
    [] status = "ingesting" -> 3
    [] status = "synthesizing" -> 4
    [] status = "verifying" -> 5
    [] OTHER -> 6

\* C5: a job's status only moves forward through queued, validating,
\* ingesting, synthesizing, verifying, terminal; the one step back allowed
\* is a single verifying -> synthesizing.
C5_ForwardOnly ==
  \A j \in JobIds :
    LET h == hist[j]
        back == {i \in 1..(Len(h) - 1) : Rank(h[i]) >= Rank(h[i + 1])}
    IN /\ \A i \in back : h[i] = "verifying" /\ h[i + 1] = "synthesizing"
       /\ Cardinality(back) <= 1

\* C6: when the first verification fails and no retry has been used, TTS is
\* invoked again and the new audio is verified once more before the job is
\* terminal.
C6_RetryResynthesizes ==
  \A j \in JobIds :
    (Returned(j) /\ Get(loc[j].qc_result, "decision", NoneVal) = "retry") =>
      calls[j].tts = 2 /\ calls[j].qc = 2

\* the evaluation ran with its dependencies present and decided
QcDecided == qc.ran /\ "decision" \in DOMAIN qc.output

\* C7: at most one automatic retry: retries_used is 0 or 1 wherever it is
\* reported, and an evaluation made with is_retry = true never decides
\* retry, whichever gates failed.
C7_AtMostOneRetry ==
  qc.ran =>
    /\ "retries_used" \in DOMAIN qc.output => qc.output.retries_used \in {0, 1}
    /\ (QcDecided /\ qc.input.is_retry) => qc.output.decision \in {"pass", "fail"}
    /\ (QcDecided /\ qc.output.decision = "retry") => ~qc.input.is_retry

\* a retry evaluation on which both gates failed
C7_Witness ==
  /\ QcDecided /\ qc.input.is_retry
  /\ qc.input.wer = 10000 /\ qc.input.cosine_sim = 0
  /\ qc.output.decision = "fail" /\ qc.output.retries_used = 1

\* the gates an evaluation is given (the tool's defaults where it names none)
GivenMaxWer ==
  LET cs == qc.input.current_settings
  IN IF "qc_gates" \in DOMAIN cs /\ "max_wer" \in DOMAIN cs.qc_gates
     THEN cs.qc_gates.max_wer ELSE QcDefaultMaxWer

GivenMinCosine ==
  LET cs == qc.input.current_settings
  IN IF "qc_gates" \in DOMAIN cs /\ "min_cosine" \in DOMAIN cs.qc_gates
     THEN cs.qc_gates.min_cosine ELSE QcDefaultMinCosine

\* C8: for every WER, cosine, max_wer, min_cosine and both values of
\* is_retry the decision is pass exactly when WER <= max_wer and
\* cosine >= min_cosine.
C8_PassIffGatesMet ==
  QcDecided =>
    (qc.output.decision = "pass"
       <=> (qc.input.wer <= GivenMaxWer /\ qc.input.cosine_sim >= GivenMinCosine))

\* a retry evaluation whose scores equal both gates, and passes
C8_Witness ==
  /\ QcDecided /\ qc.input.is_retry
  /\ qc.input.wer = GivenMaxWer /\ qc.input.cosine_sim = GivenMinCosine
  /\ GivenMaxWer = 1000 /\ GivenMinCosine = 8500
  /\ qc.output.decision = "pass"

\* What the guard is to answer for a payload: consent, then provider (in
\* any of the spellings that name the supported provider), then length.
ConsentGiven(p) == "consent_flag" \in DOMAIN p /\ p.consent_flag
ProviderSupported(p) ==
  "provider" \in DOMAIN p /\ p.provider \in {"elevenlabs", "ElevenLabs", " elevenlabs "}
ConfiguredMax(p) ==
  IF "limits" \in DOMAIN p /\ "max_text_length" \in DOMAIN p.limits
  THEN p.limits.max_text_length ELSE DefaultMaxTextLength
GuardVerdict(p) ==
  IF ~ConsentGiven(p) THEN "missing consent"
  ELSE IF ~ProviderSupported(p) THEN "provider not ElevenLabs"
  ELSE IF Len(p.text) > ConfiguredMax(p) THEN "text too long"
  ELSE NoneVal

\* C9: the guard checks consent, then provider, then text length and stops
\* at the first failure; it answers no error exactly when all three pass.
C9_GuardOrder == pg.ran => pg.verdict = GuardVerdict(pg.payload)

\* a payload failing all three checks is answered with the first
C9_Witness ==
  /\ pg.ran
  /\ ~ConsentGiven(pg.payload) /\ ~ProviderSupported(pg.payload)
  /\ Len(pg.payload.text) > ConfiguredMax(pg.payload)
  /\ pg.verdict = "missing consent"

IsPrefix(s, t) == Len(s) <= Len(t) /\ \A i \in 1..Len(s) : s[i] = t[i]

\* C10: a job whose payload the guard rejects goes queued, validating,
\* failed with the rejection reason as its error; it is never ingesting,
\* synthesizing or verifying and no preprocessing, TTS or QC call is made.
C10_RejectedNeverStarts ==
  \A j \in JobIds :
    (jobs[j] # NoJob /\ GuardVerdict(jobs[j].payload) # NoneVal) =>
      /\ IsPrefix(hist[j], <<"queued", "validating", "failed">>)
      /\ calls[j] = [pre |-> 0, tts |-> 0, qc |-> 0]
      /\ Returned(j) =>
           /\ jobs[j].status = "failed"
           /\ jobs[j].error = InputUnusable(GuardVerdict(jobs[j].payload))
           /\ jobs[j].result = NoneDict

\* a job created with consent_flag = false has returned
C10_Witness ==
  \E j \in JobIds :
    /\ Returned(j)
    /\ "consent_flag" \in DOMAIN jobs[j].payload /\ ~jobs[j].payload.consent_flag
    /\ hist[j] = <<"queued", "validating", "failed">>
    /\ jobs[j].error = "Input unusable: missing consent"

\* ---- C11
\* The preprocessing collaborator answered with a structured error, or with
\* no output file that can be used.
ApUnusable(j) ==
  /\ loc[j].ap_result # NoneDict
  /\ loc[j].ap_result.returned # Raised
  /\ \/ "error" \in DOMAIN loc[j].ap_result.returned
     \/ ~loc[j].ap_result.usable

\* C11: whenever the preprocessing collaborator has returned a structured
\* error or no usable output path, the job's thread has returned, the job is
\* failed with that reason in its error (index and file alike), it has never
\* been synthesizing, and the TTS provider has not been called for it.
C11_PreprocessErrorFails ==
  \A j \in JobIds :
    ApUnusable(j) =>
      LET returned == loc[j].ap_result.returned
      IN /\ Returned(j)
         /\ jobs[j].status = "failed" /\ disk[j] = jobs[j]
         /\ jobs[j].error =
              IF "error" \in DOMAIN returned
              THEN PreprocessingError(returned.error)
              ELSE "Audio processing failed to produce an output file"
         /\ "synthesizing" \notin {hist[j][i] : i \in 1..Len(hist[j])}
         /\ calls[j].tts = 0

\* a silent upload: the tool reports that it found no speech
C11_Witness ==
  \E j \in JobIds :
    /\ ApUnusable(j)
    /\ loc[j].ap_result.returned =
         [error |-> "No speech detected (VAD found no segments)"]
    /\ jobs[j].status = "failed"
    /\ hist[j] = <<"queued", "validating", "ingesting", "failed">>

\* ---- C12
\* The messages run_clone_job records for a fault it catches.
FaultErrors ==
  {"Orchestration error", "Audio preprocessing failed",
   "Failed to prepare generated audio for QC", "QC check failed"}

\* C12: once an exception has been raised at a line of a stage of
\* run_clone_job, the thread is either at the handler of line 185, which can
\* run, or has returned; when it has returned the job is failed with the
\* handler's message in its error, in the index and in its file, and the
\* run never ends in a status that is not terminal.
C12_FaultBarrier ==
  \A j \in JobIds :
    /\ loc[j].e # NoneVal =>
         \/ pc[j] = "L185" /\ ENABLED Handle(j)
         \/ /\ Returned(j)
            /\ jobs[j].status = "failed"
            /\ jobs[j].error \in FaultErrors
            /\ disk[j] = jobs[j]
    /\ Returned(j) => jobs[j].status \in Terminal

\* a fault of _persist at line 105, after the index took the new status
C12_Witness ==
  \E j \in JobIds :
    /\ loc[j].e = "L105" /\ Returned(j)
    /\ hist[j] = <<"queued", "validating", "ingesting", "synthesizing", "failed">>
    /\ jobs[j].error = "Orchestration error"

\* ---- C13
\* A mutation of job id is between taking the lock and returning.
Mutating(id) == \E t \in Threads : InPersist(t) /\ th[t].id = id

\* C13: the file of a created job holds the record the job had when its
\* last mutation returned, or, while a mutation is inside _persist, the
\* record being persisted (so a kill leaves one of the two in the file).
\* A get_job made after a restart, before any new mutation of the job,
\* returns the record of the last mutation that had returned when the
\* process was killed (if the kill interrupted a mutation: the record it
\* left in the file).
C13_RestartReturnsLast ==
  \A id \in JobIds :
    /\ gh.last[id] # NoJob =>
         \/ disk[id] = gh.last[id]
         \/ Mutating(id) /\ disk[id] = jobs[id]
    /\ \A t \in Threads :
         ( /\ gh.crashes > 0 /\ ~gh.dirty[id] /\ gh.last[id] # NoJob
           /\ th[t].op = "get" /\ th[t].id = id /\ th[t].ret # NoRet )
         => th[t].ret = gh.last[id]

\* created, updated twice (an event, then failed), killed with no call in
\* progress, restarted, and read back from the file
C13_Witness ==
  \E id \in JobIds, t \in Threads :
    /\ gh.crashes = 1 /\ ~gh.dirty[id] /\ ~gh.interrupted[id]
    /\ th[t].op = "get" /\ th[t].id = id /\ th[t].pc = "idle"
    /\ th[t].ret = gh.last[id]
    /\ th[t].ret # NoJob
    /\ th[t].ret.status = "failed" /\ th[t].ret.error = "E"
    /\ Len(th[t].ret.events) = 1 /\ th[t].ret.events[1].message = StoreEvent

\* ---- C14
\* C14: at every moment (each is a point at which the process may be
\* killed) the file at a job's path is absent or holds a complete record
\* that _persist was called with earlier, and what get_job has read from
\* the path is such a record too.
C14_DurableRecordComplete ==
  \A id \in JobIds :
    /\ \/ disk[id] = NoJob
       \/ disk[id] # Partial /\ disk[id] \in gh.persisted[id]
    /\ \A t \in Threads :
         (th[t].pc = "install" /\ th[t].id = id) =>
           th[t].job # Partial /\ th[t].job \in gh.persisted[id]

\* killed after the temporary file was opened and before the rename: the
\* job's path still holds the older complete record
C14_Witness ==
  \E id \in JobIds :
    /\ gh.crashes = 1
    /\ tmp[id] = Partial
    /\ disk[id] # NoJob /\ disk[id] = gh.last[id]
    /\ gh.interrupted[id]

\* ---- C15
Quiescent == lock = NoneVal /\ \A t \in Threads : th[t].pc = "idle"

\* C15: whenever no store call is in progress, the indexed record of a job
\* (if the index holds one) equals the record in its file, and the file
\* holds every returned mutation of the job applied in order.
C15_NoLostMutation ==
  Quiescent =>
    \A id \in JobIds :
      /\ jobs[id] # NoJob => jobs[id] = disk[id]
      /\ disk[id] = gh.ideal[id]

\* ---- C16
\* C16: for every cache key, however many requests are made for it and by
\* whom, at most one call to the TTS provider returns audio for it.
C16_ProviderCalledOnce ==
  \A k \in TtsKeys : elevenlabs.yielded[k] <= 1

\* ---- C17
\* C17: a request made after an equal request of the same kind has
\* succeeded returns (unless the API key is missing this time) what that
\* first request returned, reports it as cached, and has made no call to
\* the TTS provider.
C17_SecondCallCached ==
  \A c \in Callers :
    ( /\ cl[c].pc = "idle" /\ cl[c].ret # NoRet /\ cl[c].second
      /\ cl[c].ret # RaisedRet ) =>
      /\ cl[c].ret = elevenlabs.first[CacheHash(cl[c].call)][cl[c].kind]
      /\ Get(cl[c].ret, "was_cached", FALSE)
      /\ cl[c].ncalls = 0

\* ---- C19
\* C19: a request that found nothing in the cache and got no audio from the
\* provider returns a failure (None, or an exception), and every handle a
\* request returns names a file that holds audio when it is returned.
C19_NoAudioIsFailure ==
  \A c \in Callers :
    (cl[c].pc = "idle" /\ cl[c].ret # NoRet) =>
      /\ (cl[c].miss /\ ~cl[c].audio) => cl[c].ret \in {NoneDict, RaisedRet}
      /\ "path" \in DOMAIN cl[c].ret => cl[c].content = "audio"

\* ---- C18
\* The eight values the claim names, read off a call as _run's docstring and
\* defaults give them.
ParamsInUse(call) ==
  LET st == call.settings
      has(k) == k \in DOMAIN st
      dialogue == has("mode") /\ st.mode \in {"dialogue", "Dialogue"}
  IN << call.voice_id, call.text,
        IF dialogue
        THEN (IF has("dialogue_stability") THEN st.dialogue_stability ELSE 3500)
        ELSE (IF has("stability") THEN st.stability ELSE 5500),
        IF has("similarity_boost") THEN st.similarity_boost ELSE 7000,
        IF has("style") THEN st.style ELSE 0,
        IF has("speed") THEN st.speed ELSE 10000,
        IF has("model_id") THEN st.model_id ELSE "eleven_multilingual_v2",
        IF has("output_format") THEN st.output_format ELSE "mp3_44100_128" >>

KeyGiven(call) == call.cache_key \notin {NoneVal, ""}

\* C18 as stated: two calls get the same cache key exactly if they agree
\* on the eight values in use, whether or not a cache_key is passed.
C18_KeyIffParams ==
  ck.ran => (ck.ka = ck.kb <=> ParamsInUse(ck.a) = ParamsInUse(ck.b))

\* C18 amended: two calls made without a cache_key get the same cache key
\* exactly if they agree on the eight values in use; two calls made with a
\* cache_key get the same cache key exactly if their cache_keys are equal,
\* whatever their other arguments.
C18_KeyIffParamsUnlessGiven ==
  ck.ran =>
    /\ (~KeyGiven(ck.a) /\ ~KeyGiven(ck.b)) =>
         (ck.ka = ck.kb <=> ParamsInUse(ck.a) = ParamsInUse(ck.b))
    /\ (KeyGiven(ck.a) /\ KeyGiven(ck.b)) =>
         (ck.ka = ck.kb <=> ck.a.cache_key = ck.b.cache_key)

\* two calls without a cache_key that differ in the speed only
C18_Witness ==
  /\ ck.ran
  /\ ~KeyGiven(ck.a) /\ ~KeyGiven(ck.b)
  /\ ck.a = BaseCall /\ ck.b = Change(BaseCall, "speed")
  /\ ck.ka # ck.kb

\* ---- C20
\* C20: a job whose indexed or persisted record has status failed has an
\* error message in that record.
C20_FailedHasError ==
  \A j \in JobIds :
    /\ (jobs[j] # NoJob /\ jobs[j].status = "failed") => jobs[j].error # NoneVal
    /\ (disk[j] # NoJob /\ disk[j].status = "failed") => disk[j].error # NoneVal

\* ---- C21
\* the transcript the recognizer gives for the generated audio, normalized
ScHypothesis == _normalize_text(sc.input.env.heard)

ScReference == _normalize_text(sc.input.text)

\* the evaluation computed its scores, and the recognizer works
ScScored == sc.ran /\ sc.input.env.deps

\* C21: when the normalized reference has no words, the WER computed is 0 if
\* the normalized hypothesis has no words either, and 1 if it has at least
\* one word.
C21_EmptyReferenceWer ==
  (ScScored /\ sc.input.env.asr = "ok" /\ ScReference = <<>>) =>
    sc.scored.wer = (IF ScHypothesis = <<>> THEN 0 ELSE 10000)

\* ---- C22
InHist(j, status) == \E i \in 1..Len(hist[j]) : hist[j][i] = status

\* the job's payload passes the policy guard and names no reference audio
NoRawAudio(j) ==
  /\ jobs[j] # NoJob
  /\ _policy_guard(jobs[j].payload) = NoneVal
  /\ "raw_audio_path" \notin DOMAIN jobs[j].payload

\* C22: a job whose payload supplies no raw audio reference skips ingesting:
\* it never has the status ingesting, the preprocessing tool is not called,
\* and by the time its run returns it has gone from validating to
\* synthesizing.
C22_IngestOptional ==
  \A j \in JobIds :
    NoRawAudio(j) =>
      /\ ~InHist(j, "ingesting") /\ calls[j].pre = 0
      /\ Returned(j) => InHist(j, "synthesizing")

\* ---- C23
\* what a step leaves of an event log: the old events first, unchanged, and
\* at most one more
Grown(old, new) == IsPrefix(old, new) /\ Len(new) <= Len(old) + 1

\* C23: across every step of a store operation the events of a job in the
\* index, and those of its record on disk, are kept as they are and in
\* their order, and at most one event is added after them; the step at
\* which add_event changes the index appends its one event.
C23_EventsAppendOnly ==
  [][\A j \in JobIds :
       /\ (jobs[j] # NoJob /\ jobs'[j] # NoJob) =>
            Grown(jobs[j].events, jobs'[j].events)
       /\ (disk[j] \notin {NoJob, Partial} /\ disk'[j] \notin {NoJob, Partial}) =>
            Grown(disk[j].events, disk'[j].events)
       /\ \A t \in Threads :
            (th[t].pc = "idle" /\ th'[t].pc = "open" /\ th'[t].op = "add_event"
               /\ th'[t].id = j) =>
              jobs'[j].events = Append(jobs[j].events, th'[t].arg)]_vars

\* ---- C24
\* the step is thread t's call of update_job or add_event for an id the
\* index does not hold
MissedCall(t) ==
  /\ th[t].pc = "idle" /\ gh'.nops = gh.nops + 1
  /\ th'[t] # th[t] \/ th' = th
  /\ th'[t].op \in {"update", "add_event"}
  /\ jobs[th'[t].id] = NoJob

\* C24: update_job (so set_status, set_error, set_result) and add_event
\* called with an id the index does not hold return None at once and change
\* neither the index nor any file: no entry and no file is made for the id.
C24_UnknownIdNoop ==
  [][\A t \in Threads :
       MissedCall(t) =>
         /\ th'[t].pc = "idle" /\ th'[t].ret = NoJob
         /\ jobs' = jobs /\ disk' = disk /\ tmp' = tmp /\ lock' = lock]_vars

\* update_job has returned None for an id that was never created
C24_Witness ==
  \E t \in Threads, id \in JobIds :
    /\ th[t].pc = "idle" /\ th[t].op = "update" /\ th[t].id = id
    /\ th[t].ret = NoJob
    /\ gh.last[id] = NoJob /\ jobs[id] = NoJob /\ disk[id] = NoJob

\* ---- C25
\* the similarity_boost, bump and cap an evaluation is given (the tool's
\* defaults where the settings name none)
GivenBoost ==
  Get(qc.input.current_settings, "similarity_boost", QcDefaultSimilarityBoost)

GivenBump ==
  LET cs == qc.input.current_settings
  IN IF "retry_params" \in DOMAIN cs
          /\ "cosine_bump_similarity" \in DOMAIN cs.retry_params
     THEN cs.retry_params.cosine_bump_similarity ELSE QcDefaultBump

GivenCap ==
  LET cs == qc.input.current_settings
  IN IF "retry_params" \in DOMAIN cs /\ "similarity_cap" \in DOMAIN cs.retry_params
     THEN cs.retry_params.similarity_cap ELSE QcDefaultCap

\* a first evaluation that failed on similarity and asks for a retry
RetryOnSimilarity ==
  /\ QcDecided /\ ~qc.input.is_retry
  /\ qc.input.cosine_sim < GivenMinCosine
  /\ qc.output.decision = "retry"

Recommended == qc.output.recommended_settings.similarity_boost

C26_RecommendedNotLower ==
  (RetryOnSimilarity /\ GivenBump >= 0) => Recommended >= GivenBoost

\* ---- C27
\* a first evaluation that failed on WER alone
RetryOnWerOnly ==
  /\ QcDecided /\ ~qc.input.is_retry
  /\ qc.input.wer > GivenMaxWer
  /\ qc.input.cosine_sim >= GivenMinCosine

\* C27: a first verification that fails only on WER asks for a retry, and
\* the settings it recommends are the current settings, unchanged.
C27_WerOnlyRetryUnchanged ==
  RetryOnWerOnly =>
    /\ qc.output.decision = "retry"
    /\ qc.output.recommended_settings = qc.input.current_settings

\* WER 0.151 against the default 0.15 with cosine at the default gate, and
\* a similarity_boost named in the settings
C27_Witness ==
  /\ RetryOnWerOnly
  /\ qc.input.wer = 1510 /\ GivenMaxWer = QcDefaultMaxWer
  /\ qc.input.cosine_sim = 8000
  /\ "similarity_boost" \in DOMAIN qc.input.current_settings
  /\ qc.output.decision = "retry"

\* ---- C28
\* C28: within one run of a job the preprocessing tool is called at most
\* once and the TTS provider at most twice, whatever the calls return.
C28_NoOwnRetry ==
  \A j \in JobIds : calls[j].pre <= 1 /\ calls[j].tts <= 2

\* a run that ended because synthesis returned no audio, after one
\* preprocessing call and one synthesis call
C28_Witness ==
  \E j \in JobIds :
    /\ Returned(j) /\ jobs[j].status = "failed"
    /\ jobs[j].error = "TTS generation failed"
    /\ calls[j].pre = 1 /\ calls[j].tts = 1

\* ---- C29
\* the evaluation decided pass
ScPassed == "decision" \in DOMAIN sc.output /\ sc.output.decision = "pass"

\* speech recognition was not to be had in the evaluation: the library is
\* missing, its name is unbound where it is used, or it raised
AsrFailed ==
  ~sc.input.env.deps \/ ~NameBound("whisper") \/ sc.input.env.asr # "ok"

\* C29: an evaluation in which speech recognition failed or was not
\* available does not decide pass.
C29_AsrFailureNotPass == (sc.ran /\ AsrFailed) => ~ScPassed

\* ---- C30
\* the speaker embeddings were not to be had in the evaluation
EmbeddingFailed ==
  \/ ~sc.input.env.deps \/ ~NameBound("librosa") \/ ~NameBound("np")
  \/ sc.input.env.emb # "ok"

ScMinCosine ==
  LET cs == sc.input.current_settings
  IN IF "qc_gates" \in DOMAIN cs /\ "min_cosine" \in DOMAIN cs.qc_gates
     THEN cs.qc_gates.min_cosine ELSE QcDefaultMinCosine

\* C30: an evaluation in which the speaker embedding failed or was not
\* available does not decide pass under any gate with min_cosine > 0; the
\* score substituted is 0.
C30_EmbeddingFailureNotPass ==
  (sc.ran /\ EmbeddingFailed /\ ScMinCosine > 0) =>
    /\ ~ScPassed
    /\ sc.input.env.deps => sc.cosine_sim = 0

\* the embedding raised, the gate is the smallest positive one, the WER
\* gate is met, and the first evaluation asks for a retry
C30_Witness ==
  /\ sc.ran /\ sc.input.env.deps /\ sc.input.env.emb = "raises"
  /\ ScMinCosine = 1 /\ ~sc.input.is_retry
  /\ sc.cosine_sim = 0 /\ sc.scored.wer = 0
  /\ sc.output.decision = "retry"

\* ---- C31
\* C31: update_job (so set_status, set_error, set_result) and add_event
\* called for a job whose record is on disk take effect even when the index
\* does not hold the job: the call goes on to change the index and persist,
\* it does not return None.
C31_DurableJobUpdatable ==
  [][\A t \in Threads :
       (MissedCall(t) /\ disk[th'[t].id] \notin {NoJob, Partial}) =>
         /\ th'[t].pc = "open"
         /\ jobs'[th'[t].id] # NoJob]_vars

\* ---- C32
\* C32: the settings_used of a job's result are the stability,
\* similarity_boost and style that were sent to the TTS provider for it.
C32_SettingsUsedAreSent ==
  (su.ran /\ su.sent # NoneDict) =>
    /\ su.settings_used.stability = su.sent.stability
    /\ su.settings_used.similarity_boost = su.sent.similarity_boost
    /\ su.settings_used.style = su.sent.style

\* ---- C33
\* C33: every text handed to the TTS provider, on the pipeline's call, the
\* tool's chunked path and the tool's legacy fallback, has at most the
\* per-call maximum of characters.
C33_CallsWithinMaxChars ==
  \A i \in 1..Len(sp.sent) : Len(sp.sent[i]) <= ToolMaxChars

\* ---- C34
RECURSIVE Concat(_)
Concat(segments) ==
  IF segments = <<>> THEN <<>> ELSE Head(segments) \o Concat(Tail(segments))

NonWhitespace(s) == SelectSeq(s, LAMBDA c : c \notin Whitespace)

\* C34: for max_chars >= 1, every segment _split_text returns has at most
\* max_chars characters, the segments in order hold exactly the
\* non-whitespace characters of the text in their order, and a text of at
\* most max_chars characters comes back as one segment, unchanged.
C34_SplitKeepsText ==
  (sp.ran /\ sp.path = "split") =>
    /\ \A i \in 1..Len(sp.segments) : Len(sp.segments[i]) <= sp.max_chars
    /\ NonWhitespace(Concat(sp.segments)) = NonWhitespace(sp.text)
    /\ Len(sp.text) <= sp.max_chars => sp.segments = <<sp.text>>

\* a text longer than max_chars was split at a separator and one of its
\* sentences was cut as well
C34_Witness ==
  /\ sp.ran /\ sp.path = "split"
  /\ Len(sp.text) > sp.max_chars
  /\ \E i \in 1..Len(sp.text) : IsSep(sp.text, i)
  /\ Len(sp.segments) >= 3
  /\ \E i \in 1..Len(sp.segments) : Len(sp.segments[i]) = sp.max_chars
  /\ Len(RegexSplit(sp.text)) = 2

\* ---- C35
Stages == {"validating", "ingesting", "synthesizing", "verifying"}

\* C35: when a job leaves one of the stages validating, ingesting,
\* synthesizing, verifying, at least one event has been appended to it since
\* its status became that stage.
C35_StageAppendsEvent ==
  [][\A j \in JobIds :
       (/\ jobs[j] # NoJob /\ jobs'[j] # NoJob
        /\ jobs[j].status \in Stages
        /\ jobs'[j].status # jobs[j].status) =>
         Len(jobs[j].events) > mark[j]]_vars

\* ---- C36
\* a job's record without its events
NoEvents(job) == IF job = NoJob THEN NoJob ELSE [job EXCEPT !.events = <<>>]

CrewEvents ==
  {"CrewAI init skipped", "CrewAI kickoff", "CrewAI finished", "CrewAI error"}

\* C36: whatever the crew layer does (switched off, not installed, raising
\* when it is built or when it is kicked off, running to its end), its
\* steps only append events: status, error, result and payload of the job,
\* in the index and on disk, the locals of the run and the calls made are
\* left as they were, and the run goes on at line 81. So the job's final
\* status, error and result do not depend on the layer.
C36_CrewOnlyAddsEvents ==
  [][\A j \in JobIds :
       pc[j] \in {"L50", "L74"} =>
         /\ pc'[j] \in {"L50", "L74", "L81"}
         /\ NoEvents(jobs'[j]) = NoEvents(jobs[j])
         /\ NoEvents(disk'[j]) = NoEvents(disk[j])
         /\ IsPrefix(jobs[j].events, jobs'[j].events)
         /\ \A i \in Len(jobs[j].events) + 1 .. Len(jobs'[j].events) :
              jobs'[j].events[i] \in CrewEvents
         /\ loc'[j] = loc[j] /\ calls'[j] = calls[j] /\ hist'[j] = hist[j]]_vars

\* a job has completed although its crew raised at kickoff
C36_Witness ==
  \E j \in JobIds :
    /\ jobs[j] # NoJob /\ jobs[j].status = "completed"
    /\ jobs[j].result # NoneDict
    /\ \E i \in 1..Len(jobs[j].events) : jobs[j].events[i] = "CrewAI error"

\* ---- C37
\* C37: a request of the tool that is answered from the cache returns the
\* path of a file that is completely written at that moment.
C37_HitIsComplete ==
  \A c \in Callers :
    (/\ cl[c].pc = "idle" /\ cl[c].kind = "tool" /\ ~cl[c].miss
     /\ "path" \in DOMAIN cl[c].ret) =>
      cl[c].content = "audio"

\* ---- C38
\* C38: after a restart of the process, when nothing more can happen every
\* job on disk has a terminal status: a job that was under way when the
\* process died has been resumed or marked failed.
C38_InterruptedJobSettled ==
  (gh.crashes > 0 /\ ~ENABLED NextRestart) =>
    \A j \in JobIds : disk[j] # NoJob => disk[j].status \in Terminal

\* ---- C39
\* C39: get_task_status returns for a task id the status most recently
\* passed to store_task_status for it, and nothing if the task was never
\* stored or was deleted since, whichever Redis calls failed.
C39_GetReturnsLatest ==
  ts.op = "get" =>
    ts.ret = IF ts.last[ts.id] = Absent THEN NoneVal ELSE ts.last[ts.id]

====
